---- MODULE Spec2Model ----
(***************************************************************************)
(* A model of the Monkey interpreter of this repository: the lexer        *)
(* (package lexer), the Pratt parser (package parser), the tree-walking   *)
(* evaluator (package evaluator) with its builtins, and the runtime       *)
(* objects.  Go strings are sequences of one-character strings; a Go      *)
(* pointer is an address (a natural number) drawn from an allocation      *)
(* counter, so that identity comparison of objects is modelled.           *)
(***************************************************************************)
EXTENDS Integers, Sequences, FiniteSets, TLC

VARIABLES src, pc, parser, program, result, world

vars == <<src, pc, parser, program, result, world>>

(***************************************************************************)
(* package token                                                           *)
(***************************************************************************)
ILLEGAL == "ILLEGAL"
EOF == "EOF"
IDENTIFIER == "IDENTIFIER"
INT == "INT"
ASSIGN == "="
PLUS == "+"
MINUS == "-"
EQ == "=="
NEQ == "!="
STAR == "*"
GR == ">"
LE == "<"
SLASH == "/"
EXCLA == "!"
COMMA == ","
SEMICOLON == ";"
LP == "("
RP == ")"
LB == "{"
RB == "}"
LET_TOK == "LET"
FUNC == "FUNCTION"
TRUE_TOK == "TRUE"
FALSE_TOK == "FALSE"
RETURN == "RETURN"
IF_TOK == "IF"
ELSE_TOK == "ELSE"
STRING_TOK == "STRING"
LSB == "["
RSB == "]"
\* token.COLON is used by the parser and by the lexer's test but is not
\* among the constants of package token; its value is the one of the spec.
COLON == ":"

Token(type, literal) == [Type |-> type, Literal |-> literal]

keywords ==
  (<<"l", "e", "t">> :> LET_TOK) @@
  (<<"f", "n">> :> FUNC) @@
  (<<"t", "r", "u", "e">> :> TRUE_TOK) @@
  (<<"f", "a", "l", "s", "e">> :> FALSE_TOK) @@
  (<<"i", "f">> :> IF_TOK) @@
  (<<"e", "l", "s", "e">> :> ELSE_TOK) @@
  (<<"r", "e", "t", "u", "r", "n">> :> RETURN)

LookupIdent(ident) ==
  IF ident \in DOMAIN keywords THEN keywords[ident] ELSE IDENTIFIER

(***************************************************************************)
(* package lexer.  A lexer is [input, position, readPosition, ch];        *)
(* positions are 0-based as in Go, NUL is the byte 0.                      *)
(***************************************************************************)
NUL == "NUL"

LowerCase == {"a", "b", "c", "d", "e", "f", "g", "h", "i", "j", "k", "l", "m",
              "n", "o", "p", "q", "r", "s", "t", "u", "v", "w", "x", "y", "z"}
UpperCase == {"A", "B", "C", "D", "E", "F", "G", "H", "I", "J", "K", "L", "M",
              "N", "O", "P", "Q", "R", "S", "T", "U", "V", "W", "X", "Y", "Z"}
Digits == {"0", "1", "2", "3", "4", "5", "6", "7", "8", "9"}

isLetter(ch) == ch \in LowerCase \/ ch \in UpperCase \/ ch = "_"

isDigit(ch) == ch \in Digits

\* input[from:to] of Go
Slice(input, from, to) == SubSeq(input, from + 1, to)

readChar(l) ==
  [l EXCEPT !.ch = IF l.readPosition >= Len(l.input)
                     THEN NUL
                     ELSE l.input[l.readPosition + 1],
            !.position = l.readPosition,
            !.readPosition = l.readPosition + 1]

LexerNew(input) ==
  readChar([input |-> input, position |-> 0, readPosition |-> 0, ch |-> NUL])

peakchar(l) ==
  IF l.position < Len(l.input) - 1 THEN l.input[l.position + 2] ELSE NUL

RECURSIVE skipWhitespace(_)
skipWhitespace(l) ==
  IF l.ch = " " \/ l.ch = "\n" \/ l.ch = "\t" \/ l.ch = "\r"
    THEN skipWhitespace(readChar(l))
    ELSE l

RECURSIVE readWhile(_, _)
readWhile(l, isClass) ==
  IF (isClass = "letter" /\ isLetter(l.ch)) \/ (isClass = "digit" /\ isDigit(l.ch))
    THEN readWhile(readChar(l), isClass)
    ELSE l

\* v bound to a name for the steps F that follow it: v := ...; F(v)
With(v, F(_)) == F(v)

\* readIdentifier and readNumber return [lit, l]: the text read and the lexer after it
readIdentifier(l) ==
  With(readWhile(l, "letter"), LAMBDA l2 :
    [lit |-> Slice(l.input, l.position, l2.position), l |-> l2])

readNumber(l) ==
  With(readWhile(l, "digit"), LAMBDA l2 :
    [lit |-> Slice(l.input, l.position, l2.position), l |-> l2])

RECURSIVE readStringLoop(_)
readStringLoop(l) ==
  With(readChar(l), LAMBDA l2 :
    IF l2.ch = "\"" \/ l2.ch = NUL THEN l2 ELSE readStringLoop(l2))

readString(l) ==
  With(readStringLoop(l), LAMBDA l2 :
    [lit |-> Slice(l.input, l.position + 1, l2.position), l |-> l2])

newToken(tokenType, ch) == Token(tokenType, <<ch>>)

SingleCharKinds ==
  (";" :> SEMICOLON) @@ ("(" :> LP) @@ (")" :> RP) @@ ("," :> COMMA) @@
  ("+" :> PLUS) @@ ("{" :> LB) @@ ("}" :> RB) @@ ("-" :> MINUS) @@
  ("/" :> SLASH) @@ ("*" :> STAR) @@ (">" :> GR) @@ ("<" :> LE) @@
  ("[" :> LSB) @@ ("]" :> RSB)

\* NextToken returns [tok, l]
NextToken(l0) ==
  With(skipWhitespace(l0), LAMBDA l :
    CASE l.ch = "=" ->
           IF peakchar(l) = "="
             THEN With(readChar(l), LAMBDA l2 :
                    [tok |-> Token(EQ, <<l.ch, l2.ch>>), l |-> readChar(l2)])
             ELSE [tok |-> newToken(ASSIGN, l.ch), l |-> readChar(l)]
      [] l.ch = "!" ->
           IF peakchar(l) = "="
             THEN With(readChar(l), LAMBDA l2 :
                    [tok |-> Token(NEQ, <<l.ch, l2.ch>>), l |-> readChar(l2)])
             ELSE [tok |-> newToken(EXCLA, l.ch), l |-> readChar(l)]
      [] l.ch \in DOMAIN SingleCharKinds ->
           [tok |-> newToken(SingleCharKinds[l.ch], l.ch), l |-> readChar(l)]
      [] l.ch = NUL ->
           [tok |-> Token(EOF, <<>>), l |-> readChar(l)]
      [] l.ch = "\"" ->
           With(readString(l), LAMBDA r :
             [tok |-> Token(STRING_TOK, r.lit), l |-> readChar(r.l)])
      [] OTHER ->
           IF isLetter(l.ch)
             THEN With(readIdentifier(l), LAMBDA r :
                    [tok |-> Token(LookupIdent(r.lit), r.lit), l |-> r.l])
             ELSE IF isDigit(l.ch)
               THEN With(readNumber(l), LAMBDA r :
                      [tok |-> Token(INT, r.lit), l |-> r.l])
               ELSE [tok |-> newToken(ILLEGAL, l.ch), l |-> readChar(l)])

(***************************************************************************)
(* package ast.  A node is a record with a kind; Nil is Go's nil.  The     *)
(* Token field of the nodes is used only by String() and is left out.      *)
(***************************************************************************)
Nil == [kind |-> "nil"]

Program(stmts) == [kind |-> "Program", Statements |-> stmts]
LetStatement(name, value) == [kind |-> "LetStatement", Name |-> name, Value |-> value]
ReturnStatement(value) == [kind |-> "ReturnStatement", ReturnValue |-> value]
ExpressionStatement(exp) == [kind |-> "ExpressionStatement", Expression |-> exp]
BlockStatements(stmts) == [kind |-> "BlockStatements", Statements |-> stmts]
Identifier(value) == [kind |-> "Identifier", Value |-> value]
IntegerLiteral(value) == [kind |-> "IntegerLiteral", Value |-> value]
BooleanLit(value) == [kind |-> "Boolean", Value |-> value]
StringLiteral(value) == [kind |-> "StringLiteral", Value |-> value]
ArrayLit(items) == [kind |-> "Array", Items |-> items]
HashExpression(pairs) == [kind |-> "HashExpression", Pairs |-> pairs]
PrefixExpression(op, right) == [kind |-> "PrefixExpression", Operator |-> op, Right |-> right]
InfixExpression(op, left, right) ==
  [kind |-> "InfixExpression", Operator |-> op, Left |-> left, Right |-> right]
IfExpression(cond, cons, alt) ==
  [kind |-> "IfExpression", Condition |-> cond, Consequence |-> cons, Alternatives |-> alt]
FunctionLiteral(params, body) ==
  [kind |-> "FunctionLiteral", Parameters |-> params, Body |-> body]
CallExpression(function, args) ==
  [kind |-> "CallExpression", Function |-> function, Arguments |-> args]
IndexExpression(left, index) ==
  [kind |-> "IndexExpression", LeftExpression |-> left, Index |-> index]

(***************************************************************************)
(* package parser.  A parser is [l, curToken, peakToken, errors]; every    *)
(* parse function returns the node it built and the parser after it.       *)
(* Two more fields observe the run: lexed, the tokens the lexer returned,  *)
(* and trace, the iterations of the parser's loops.                        *)
(***************************************************************************)
LOWEST == 1
EQUALS == 2
LESSGREATER == 3
SUM == 4
PRODUCT == 5
PREFIX == 6
CALL == 7
INDEX == 8

precedences ==
  (EQ :> EQUALS) @@ (NEQ :> EQUALS) @@ (LE :> LESSGREATER) @@ (GR :> LESSGREATER) @@
  (PLUS :> SUM) @@ (MINUS :> SUM) @@ (SLASH :> PRODUCT) @@ (STAR :> PRODUCT) @@
  (LP :> CALL) @@ (LSB :> INDEX)

\* a message built by fmt.Sprintf: the format and its arguments, each
\* argument a sequence of strings
Msg(format, args) == [format |-> format, args |-> args]

\* p.lexed is the tokens that the calls of l.NextToken returned, in order
nextToken(p) ==
  With(NextToken(p.l), LAMBDA r :
    [p EXCEPT !.curToken = p.peakToken, !.peakToken = r.tok, !.l = r.l,
              !.lexed = Append(@, r.tok)])

\* p.trace records that the body of a loop of the parser is entered, with
\* the number of tokens taken so far, the current token's type and the
\* number of errors recorded so far
Iter(p, loop) ==
  [p EXCEPT !.trace = Append(@, [ev |-> "enter", loop |-> loop, taken |-> Len(p.lexed),
                                 cur |-> p.curToken.Type, errors |-> Len(p.errors)])]

\* p.trace records that the body entered last is left: by a return out of
\* the loop (left) or to test the loop's condition again; node is the
\* statement the body made, in the loops over statements
Done(p, loop, left, node) ==
  [p EXCEPT !.trace = Append(@, [ev |-> "exit", loop |-> loop, taken |-> Len(p.lexed),
                                 cur |-> p.curToken.Type, errors |-> Len(p.errors),
                                 left |-> left, node |-> node])]

ParserNew(l) ==
  nextToken(nextToken([l |-> l,
                       curToken |-> Token("", <<>>),
                       peakToken |-> Token("", <<>>),
                       errors |-> <<>>,
                       trace |-> <<>>,
                       lexed |-> <<>>]))

curTokenIs(p, t) == p.curToken.Type = t

peekTokenIs(p, t) == p.peakToken.Type = t

PeekError(p, t) ==
  [p EXCEPT !.errors = Append(@, Msg("expected next token to be %s, got %s instead",
                                     <<<<t>>, <<p.peakToken.Type>>>>))]

\* expectPeek returns [ok, p]
expectPeek(p, t) ==
  IF peekTokenIs(p, t)
    THEN [ok |-> TRUE, p |-> nextToken(p)]
    ELSE [ok |-> FALSE, p |-> PeekError(p, t)]

noPrefixParseFnError(p, t) ==
  [p EXCEPT !.errors = Append(@, Msg("no prefix parse function for %s found", <<<<t>>>>))]

peekPrecedence(p) ==
  IF p.peakToken.Type \in DOMAIN precedences THEN precedences[p.peakToken.Type] ELSE LOWEST

curPrecedence(p) ==
  IF p.curToken.Type \in DOMAIN precedences THEN precedences[p.curToken.Type] ELSE LOWEST

\* the token kinds New registers a prefix, respectively an infix, function for
prefixParseFns ==
  {LB, LSB, STRING_TOK, FUNC, IF_TOK, LP, IDENTIFIER, INT, MINUS, EXCLA, TRUE_TOK, FALSE_TOK}

infixParseFns == {LP, PLUS, MINUS, SLASH, STAR, EQ, NEQ, LE, GR, LSB}

DigitValue ==
  ("0" :> 0) @@ ("1" :> 1) @@ ("2" :> 2) @@ ("3" :> 3) @@ ("4" :> 4) @@
  ("5" :> 5) @@ ("6" :> 6) @@ ("7" :> 7) @@ ("8" :> 8) @@ ("9" :> 9)

RECURSIVE DigitsToInt(_, _, _)
DigitsToInt(lit, base, acc) ==
  IF lit = <<>> THEN acc
  ELSE DigitsToInt(Tail(lit), base, acc * base + DigitValue[Head(lit)])

\* strconv.ParseInt(lit, 0, 64) on a run of digits: base 0 reads a leading
\* "0" as the octal prefix, in which the digits 8 and 9 are a syntax error.
\* Returns [ok, value].  (Literals stay far below the 64-bit range.)
ParseInt(lit) ==
  IF Len(lit) > 1 /\ Head(lit) = "0"
    THEN IF \E i \in 2..Len(lit) : lit[i] \in {"8", "9"}
           THEN [ok |-> FALSE, value |-> 0]
           ELSE [ok |-> TRUE, value |-> DigitsToInt(Tail(lit), 8, 0)]
    ELSE [ok |-> TRUE, value |-> DigitsToInt(lit, 10, 0)]

parseIntegerLiteral(p) ==
  With(ParseInt(p.curToken.Literal), LAMBDA r :
    IF ~r.ok
      THEN [node |-> Nil,
            p |-> [p EXCEPT !.errors =
                     Append(@, Msg("could not parse %q as integer", <<p.curToken.Literal>>))]]
      ELSE [node |-> IntegerLiteral(r.value), p |-> p])

parseIdentifier(p) == [node |-> Identifier(p.curToken.Literal), p |-> p]

parseBoolean(p) == [node |-> BooleanLit(curTokenIs(p, TRUE_TOK)), p |-> p]

parseStringLiteral(p) == [node |-> StringLiteral(p.curToken.Literal), p |-> p]

\* the loop of parseFunctionParameters: returns [idents, p]
RECURSIVE parseFunctionParametersLoop(_, _)
parseFunctionParametersLoop(p, idents) ==
  IF peekTokenIs(p, COMMA)
    THEN With(nextToken(nextToken(Iter(p, "parseFunctionParameters"))), LAMBDA p2 :
           parseFunctionParametersLoop(Done(p2, "parseFunctionParameters", FALSE, Nil),
                                       Append(idents, Identifier(p2.curToken.Literal))))
    ELSE [idents |-> idents, p |-> p]

\* returns [idents, p]; a nil slice is the empty sequence
parseFunctionParameters(p0) ==
  With(nextToken(p0), LAMBDA p :
    IF curTokenIs(p, RP)
      THEN [idents |-> <<>>, p |-> p]
      ELSE With(parseFunctionParametersLoop(p, <<Identifier(p.curToken.Literal)>>), LAMBDA r :
           With(expectPeek(r.p, RP), LAMBDA e :
             IF ~e.ok THEN [idents |-> <<>>, p |-> e.p]
                      ELSE [idents |-> r.idents, p |-> e.p])))

\* hash.Pairs[key] = val on a Go map keyed by the node's identity: every
\* node is a distinct key, except nil, of which there is one
SetPair(pairs, key, val) ==
  IF key = Nil /\ \E i \in 1..Len(pairs) : pairs[i][1] = Nil
    THEN [i \in 1..Len(pairs) |-> IF pairs[i][1] = Nil THEN <<key, val>> ELSE pairs[i]]
    ELSE Append(pairs, <<key, val>>)

\* a parse function's "return nil"
Fail(p) == [node |-> Nil, p |-> p]

RECURSIVE parseExpression(_, _)
RECURSIVE parseExpressionLoop(_, _, _)
RECURSIVE prefix(_)
RECURSIVE infix(_, _)
RECURSIVE parseStatement(_)
RECURSIVE parseBlockStatementLoop(_, _)
RECURSIVE parseHashExpressionLoop(_, _)
RECURSIVE parseExpressionListLoop(_, _)

\* the loop of parseExpressionList: returns [list, p]
parseExpressionListLoop(p, expressions) ==
  IF peekTokenIs(p, COMMA)
    THEN With(parseExpression(nextToken(nextToken(Iter(p, "parseExpressionList"))), LOWEST),
              LAMBDA r :
                parseExpressionListLoop(Done(r.p, "parseExpressionList", FALSE, Nil),
                                        Append(expressions, r.node)))
    ELSE [list |-> expressions, p |-> p]

\* returns [list, p]; a nil slice is the empty sequence
parseExpressionList(p, expect) ==
  IF peekTokenIs(p, expect)
    THEN [list |-> <<>>, p |-> nextToken(p)]
    ELSE With(parseExpression(nextToken(p), LOWEST), LAMBDA first :
         With(parseExpressionListLoop(first.p, <<first.node>>), LAMBDA r :
         With(expectPeek(r.p, expect), LAMBDA e :
           IF ~e.ok THEN [list |-> <<>>, p |-> e.p]
                    ELSE [list |-> r.list, p |-> e.p])))

parseCallExpression(p, function) ==
  With(parseExpressionList(p, RP), LAMBDA r :
    [node |-> CallExpression(function, r.list), p |-> r.p])

parseArrayExpression(p) ==
  With(parseExpressionList(p, RSB), LAMBDA r :
    [node |-> ArrayLit(r.list), p |-> r.p])

parseIndexExpression(p, leftExp) ==
  With(parseExpression(nextToken(p), LOWEST), LAMBDA r :
  With(expectPeek(r.p, RSB), LAMBDA e :
    IF ~e.ok THEN Fail(e.p)
             ELSE [node |-> IndexExpression(leftExp, r.node), p |-> e.p]))

\* the loop of parseHashExpression: returns [ok, pairs, p], ok = FALSE when
\* the function returned nil from inside the loop
parseHashExpressionLoop(p, pairs) ==
  IF ~peekTokenIs(p, RB)
    THEN With(parseExpression(nextToken(Iter(p, "parseHashExpression")), LOWEST), LAMBDA key :
         With(expectPeek(key.p, COLON), LAMBDA e1 :
           IF ~e1.ok
             THEN [ok |-> FALSE, pairs |-> pairs,
                   p |-> Done(e1.p, "parseHashExpression", TRUE, Nil)]
           ELSE With(parseExpression(nextToken(e1.p), LOWEST), LAMBDA val :
                With(SetPair(pairs, key.node, val.node), LAMBDA pairs2 :
                  IF ~peekTokenIs(val.p, RB)
                    THEN With(expectPeek(val.p, COMMA), LAMBDA e2 :
                           IF ~e2.ok
                             THEN [ok |-> FALSE, pairs |-> pairs2,
                                   p |-> Done(e2.p, "parseHashExpression", TRUE, Nil)]
                             ELSE parseHashExpressionLoop(
                                    Done(e2.p, "parseHashExpression", FALSE, Nil), pairs2))
                    ELSE parseHashExpressionLoop(
                           Done(val.p, "parseHashExpression", FALSE, Nil), pairs2)))))
    ELSE [ok |-> TRUE, pairs |-> pairs, p |-> p]

parseHashExpression(p) ==
  With(parseHashExpressionLoop(p, <<>>), LAMBDA r :
    IF ~r.ok THEN Fail(r.p)
    ELSE With(expectPeek(r.p, RB), LAMBDA e :
           IF ~e.ok THEN Fail(e.p)
                    ELSE [node |-> HashExpression(r.pairs), p |-> e.p]))

\* the loop of parseBlockStatement: returns [stmts, p]
\* end of input is seen only after one more statement has been parsed
parseBlockStatementLoopLate(p, stmts) ==
  IF ~curTokenIs(p, RB)
    THEN With(parseStatement(Iter(p, "parseBlockStatement")), LAMBDA r :
           IF curTokenIs(p, EOF)
             THEN [stmts |-> stmts, p |-> Done(r.p, "parseBlockStatement", TRUE, r.node)]
             ELSE parseBlockStatementLoop(
                    Done(nextToken(r.p), "parseBlockStatement", FALSE, r.node),
                    IF r.node # Nil THEN Append(stmts, r.node) ELSE stmts))
    ELSE [stmts |-> stmts, p |-> p]

parseBlockStatementLoop(p, stmts) ==
  IF ~curTokenIs(p, RB) /\ ~curTokenIs(p, EOF)
    THEN With(parseStatement(Iter(p, "parseBlockStatement")), LAMBDA r :
           parseBlockStatementLoop(Done(nextToken(r.p), "parseBlockStatement", FALSE, r.node),
                                   IF r.node # Nil THEN Append(stmts, r.node) ELSE stmts))
    ELSE [stmts |-> stmts, p |-> p]

parseBlockStatement(p) ==
  With(parseBlockStatementLoop(nextToken(p), <<>>), LAMBDA r :
    [node |-> BlockStatements(r.stmts), p |-> r.p])

parseFunction(p) ==
  With(expectPeek(p, LP), LAMBDA e1 :
    IF ~e1.ok THEN Fail(e1.p)
    ELSE With(parseFunctionParameters(e1.p), LAMBDA params :
         With(expectPeek(params.p, LB), LAMBDA e2 :
           IF ~e2.ok THEN Fail(e2.p)
           ELSE With(parseBlockStatement(e2.p), LAMBDA body :
                  [node |-> FunctionLiteral(params.idents, body.node), p |-> body.p]))))

\* parseIfExpression from "if p.peekTokenIs(token.ELSE)" on
parseIfAlternative(cond, cons) ==
  IF peekTokenIs(cons.p, ELSE_TOK)
    THEN With(expectPeek(nextToken(cons.p), LB), LAMBDA e4 :
           IF ~e4.ok THEN Fail(e4.p)
           ELSE With(parseBlockStatement(e4.p), LAMBDA alt :
                  [node |-> IfExpression(cond.node, cons.node, alt.node), p |-> alt.p]))
    ELSE [node |-> IfExpression(cond.node, cons.node, Nil), p |-> cons.p]

parseIfExpression(p) ==
  With(expectPeek(p, LP), LAMBDA e1 :
    IF ~e1.ok THEN Fail(e1.p)
    ELSE With(parseExpression(nextToken(e1.p), LOWEST), LAMBDA cond :
         With(expectPeek(cond.p, RP), LAMBDA e2 :
           IF ~e2.ok THEN Fail(e2.p)
           ELSE With(expectPeek(e2.p, LB), LAMBDA e3 :
                  IF ~e3.ok THEN Fail(e3.p)
                  ELSE With(parseBlockStatement(e3.p), LAMBDA cons :
                         parseIfAlternative(cond, cons))))))

parseGroupExpressions(p) ==
  With(parseExpression(nextToken(p), LOWEST), LAMBDA r :
  With(expectPeek(r.p, RP), LAMBDA e :
    IF ~e.ok THEN Fail(e.p) ELSE [node |-> r.node, p |-> e.p]))

\* parseInfixExpression that parses its right operand one level lower
parseInfixExpressionLower(p, left) ==
  With(parseExpression(nextToken(p), curPrecedence(p) - 1), LAMBDA r :
    [node |-> InfixExpression(p.curToken.Literal, left, r.node), p |-> r.p])

parseInfixExpression(p, left) ==
  With(parseExpression(nextToken(p), curPrecedence(p)), LAMBDA r :
    [node |-> InfixExpression(p.curToken.Literal, left, r.node), p |-> r.p])

parsePrefixExpression(p) ==
  With(parseExpression(nextToken(p), PREFIX), LAMBDA r :
    [node |-> PrefixExpression(p.curToken.Literal, r.node), p |-> r.p])

\* p.prefixParseFns[p.curToken.Type]()
prefix(p) ==
  CASE p.curToken.Type = LB -> parseHashExpression(p)
    [] p.curToken.Type = LSB -> parseArrayExpression(p)
    [] p.curToken.Type = STRING_TOK -> parseStringLiteral(p)
    [] p.curToken.Type = FUNC -> parseFunction(p)
    [] p.curToken.Type = IF_TOK -> parseIfExpression(p)
    [] p.curToken.Type = LP -> parseGroupExpressions(p)
    [] p.curToken.Type = IDENTIFIER -> parseIdentifier(p)
    [] p.curToken.Type = INT -> parseIntegerLiteral(p)
    [] p.curToken.Type \in {MINUS, EXCLA} -> parsePrefixExpression(p)
    [] p.curToken.Type \in {TRUE_TOK, FALSE_TOK} -> parseBoolean(p)

\* p.infixParseFns[p.curToken.Type](left)
infix(p, left) ==
  CASE p.curToken.Type = LP -> parseCallExpression(p, left)
    [] p.curToken.Type = LSB -> parseIndexExpression(p, left)
    [] OTHER -> parseInfixExpression(p, left)

parseExpressionLoop(p, precedence, leftExp) ==
  IF ~peekTokenIs(p, SEMICOLON) /\ precedence < peekPrecedence(p)
    THEN IF p.peakToken.Type \notin infixParseFns
           THEN [node |-> leftExp,
                 p |-> Done(Iter(p, "parseExpression"), "parseExpression", TRUE, Nil)]
           ELSE With(infix(nextToken(Iter(p, "parseExpression")), leftExp), LAMBDA r :
                  parseExpressionLoop(Done(r.p, "parseExpression", FALSE, Nil),
                                      precedence, r.node))
    ELSE [node |-> leftExp, p |-> p]

parseExpression(p, precedence) ==
  IF p.curToken.Type \notin prefixParseFns
    THEN Fail(noPrefixParseFnError(p, p.curToken.Type))
    ELSE With(prefix(p), LAMBDA left :
           parseExpressionLoop(left.p, precedence, left.node))

\* if p.peekTokenIs(token.SEMICOLON) { p.nextToken() }
skipSemicolon(p) == IF peekTokenIs(p, SEMICOLON) THEN nextToken(p) ELSE p

parseExpreesionStatement(p) ==
  With(parseExpression(p, LOWEST), LAMBDA r :
    [node |-> ExpressionStatement(r.node), p |-> skipSemicolon(r.p)])

parseReturnStatement(p) ==
  With(parseExpression(nextToken(p), LOWEST), LAMBDA r :
    [node |-> ReturnStatement(r.node), p |-> skipSemicolon(r.p)])

parseLetStatement(p) ==
  With(expectPeek(p, IDENTIFIER), LAMBDA e1 :
    IF ~e1.ok THEN Fail(e1.p)
    ELSE With(expectPeek(e1.p, ASSIGN), LAMBDA e2 :
           IF ~e2.ok THEN Fail(e2.p)
           ELSE With(parseExpression(nextToken(e2.p), LOWEST), LAMBDA r :
                  [node |-> LetStatement(Identifier(e1.p.curToken.Literal), r.node),
                   p |-> skipSemicolon(r.p)])))

parseStatement(p) ==
  CASE p.curToken.Type = LET_TOK -> parseLetStatement(p)
    [] p.curToken.Type = RETURN -> parseReturnStatement(p)
    [] OTHER -> parseExpreesionStatement(p)

RECURSIVE ParseProgramLoop(_, _)
ParseProgramLoop(p, stmts) ==
  IF p.curToken.Type # EOF
    THEN With(parseStatement(Iter(p, "ParseProgram")), LAMBDA r :
           ParseProgramLoop(Done(nextToken(r.p), "ParseProgram", FALSE, r.node),
                            IF r.node # Nil THEN Append(stmts, r.node) ELSE stmts))
    ELSE [node |-> Program(stmts), p |-> p]

\* returns [node, p]: the Program and the parser, whose errors are Errors()
ParseProgram(p) == ParseProgramLoop(p, <<>>)

\* lexer.New, parser.New and ParseProgram on a source text
Parse(input) == ParseProgram(ParserNew(LexerNew(input)))

(***************************************************************************)
(* Source texts.  A text is written as a sequence of words; Chars spells   *)
(* a word of more than one character, Source joins the words with blanks.  *)
(***************************************************************************)
Spell ==
  [let |-> <<"l", "e", "t">>, fn |-> <<"f", "n">>, if |-> <<"i", "f">>,
   else |-> <<"e", "l", "s", "e">>, return |-> <<"r", "e", "t", "u", "r", "n">>,
   true |-> <<"t", "r", "u", "e">>, false |-> <<"f", "a", "l", "s", "e">>,
   len |-> <<"l", "e", "n">>, push |-> <<"p", "u", "s", "h">>,
   puts |-> <<"p", "u", "t", "s">>, first |-> <<"f", "i", "r", "s", "t">>,
   last |-> <<"l", "a", "s", "t">>, rest |-> <<"r", "e", "s", "t">>,
   adder |-> <<"a", "d", "d", "e", "r">>, foo |-> <<"f", "o", "o">>,
   bar |-> <<"b", "a", "r">>,
   eq |-> <<"=", "=">>, neq |-> <<"!", "=">>,
   strA |-> <<"\"", "a", "\"">>, strB |-> <<"\"", "b", "\"">>,
   strEmpty |-> <<"\"", "\"">>,
   n10 |-> <<"1", "0">>, n08 |-> <<"0", "8">>, n010 |-> <<"0", "1", "0">>]

Chars(word) == IF word \in DOMAIN Spell THEN Spell[word] ELSE <<word>>

RECURSIVE Source(_)
Source(words) ==
  IF words = <<>> THEN <<>>
  ELSE IF Len(words) = 1 THEN Chars(words[1])
  ELSE Chars(words[1]) \o <<" ">> \o Source(Tail(words))

\* the words written without blanks between them
RECURSIVE Dense(_)
Dense(words) ==
  IF words = <<>> THEN <<>> ELSE Chars(words[1]) \o Dense(Tail(words))

(***************************************************************************)
(* package object.  An object is a record with its type tag and, for an    *)
(* object allocated during evaluation, the address of its allocation:      *)
(* two objects are the same Go pointer exactly when the records are equal. *)
(***************************************************************************)
INTEGER_OBJ == "INTEGER"
BOOLEAN_OBJ == "BOOLEAN"
NULL_OBJ == "NULL"
RETURN_VALUE_OBJ == "RETURN VALUE"
ERROR_OBJ == "ERROR"
FUNCTION_OBJ == "FUNCTION"
STRING_OBJ == "STRING"
BUILTIN_OBJ == "BUILTIN"
ARRAY_OBJ == "ARRAY"
HASH_OBJ == "HASH"

\* Go's nil object.Object; calling Type() on it panics
NilObj == [type |-> "nil"]

NULL == [type |-> NULL_OBJ]
TRUE_OBJ == [type |-> BOOLEAN_OBJ, Value |-> TRUE]
FALSE_OBJ == [type |-> BOOLEAN_OBJ, Value |-> FALSE]

\* an evaluation step returns the object and the world after the step
Ret(val, w) == [val |-> val, w |-> w]

\* a Go run-time panic (nil dereference, index out of range, division by
\* zero): the evaluation is abandoned
Panic(w) == Ret(NilObj, [w EXCEPT !.panic = TRUE])

\* &object.T{...}: the object gets the next free address
New(w, obj) == Ret(obj @@ [addr |-> w.next], [w EXCEPT !.next = @ + 1])

newInteger(w, value) == New(w, [type |-> INTEGER_OBJ, Value |-> value])
newString(w, value) == New(w, [type |-> STRING_OBJ, Value |-> value])
newArray(w, elements) == New(w, [type |-> ARRAY_OBJ, Elements |-> elements])
newReturnValue(w, value) == New(w, [type |-> RETURN_VALUE_OBJ, Value |-> value])
\* the function keeps the outermost environment, not the one it is made in
newFunctionGlobal(w, params, body, env) ==
  New(w, [type |-> FUNCTION_OBJ, Parameters |-> params, Body |-> body, Env |-> 1])

newFunction(w, params, body, env) ==
  New(w, [type |-> FUNCTION_OBJ, Parameters |-> params, Body |-> body, Env |-> env])
newError(w, format, args) ==
  New(w, [type |-> ERROR_OBJ, Message |-> Msg(format, args)])

\* the Enviroment type: a store of bindings and the outer environment (0:
\* none).  The environments live in world.envs and are named by their index.
NewEnviroment(w) ==
  [env |-> Len(w.envs) + 1,
   w |-> [w EXCEPT !.envs = Append(@, [store |-> <<>>, outer |-> 0])]]

NewEnclosedEnviroment(w, outer) ==
  [env |-> Len(w.envs) + 1,
   w |-> [w EXCEPT !.envs = Append(@, [store |-> <<>>, outer |-> outer])]]

\* env.Get(name): [ok, val], through the chain of outer environments
RECURSIVE EnvGet(_, _, _)
EnvGet(w, env, name) ==
  IF name \in DOMAIN w.envs[env].store
    THEN [ok |-> TRUE, val |-> w.envs[env].store[name]]
    ELSE IF w.envs[env].outer # 0
      THEN EnvGet(w, w.envs[env].outer, name)
      ELSE [ok |-> FALSE, val |-> NilObj]

\* env.Set(name, val): binds in env itself
EnvSet(w, env, name, val) ==
  [w EXCEPT !.envs[env].store = (name :> val) @@ @]

(***************************************************************************)
(* package evaluator                                                       *)
(***************************************************************************)
Itoa(n) == IF n \in 0..9 THEN <<CHOOSE d \in Digits : DigitValue[d] = n>> ELSE <<"many">>

\* the argument of a %s that prints obj.Type()
TypeArg(obj) == <<obj.type>>

nativeBoolObject(input) == IF input THEN TRUE_OBJ ELSE FALSE_OBJ

isError(obj) == IF obj # NilObj THEN obj.type = ERROR_OBJ ELSE FALSE

BuiltinNames ==
  {Spell.len, Spell.first, Spell.last, Spell.rest, Spell.push, Spell.puts}

\* builtins[name], a *object.Builtin
Builtin(name) == [type |-> BUILTIN_OBJ, Fn |-> name]

\* the native handlers: builtins[name].Fn(args...)
BuiltinLen(w, args) ==
  IF Len(args) # 1
    THEN newError(w, "wrong number of arguments. got=%d, want=1", <<Itoa(Len(args))>>)
  ELSE IF args[1] = NilObj THEN Panic(w)
  ELSE IF args[1].type = ARRAY_OBJ THEN newInteger(w, Len(args[1].Elements))
  ELSE IF args[1].type = STRING_OBJ THEN newInteger(w, Len(args[1].Value))
  ELSE newError(w, "argument to 'len' not supported, got %s", <<TypeArg(args[1])>>)

BuiltinFirst(w, args) ==
  IF Len(args) # 1
    THEN newError(w, "wrong number of arguments. got=%d, want=1", <<Itoa(Len(args))>>)
  ELSE IF args[1] = NilObj THEN Panic(w)
  ELSE IF args[1].type = ARRAY_OBJ
    THEN IF Len(args[1].Elements) < 1 THEN Ret(NULL, w) ELSE Ret(args[1].Elements[1], w)
  ELSE newError(w, "argument to 'first' must be ARRAY, got %s", <<TypeArg(args[1])>>)

BuiltinLast(w, args) ==
  IF Len(args) # 1
    THEN newError(w, "wrong number of arguments. got=%d, want=1", <<Itoa(Len(args))>>)
  ELSE IF args[1] = NilObj THEN Panic(w)
  ELSE IF args[1].type = ARRAY_OBJ
    THEN IF Len(args[1].Elements) < 1 THEN Ret(NULL, w)
         ELSE Ret(args[1].Elements[Len(args[1].Elements)], w)
  ELSE newError(w, "argument to 'last' must be ARRAY, got %s", <<TypeArg(args[1])>>)

BuiltinRest(w, args) ==
  IF Len(args) # 1
    THEN newError(w, "wrong number of arguments. got=%d, want=1", <<Itoa(Len(args))>>)
  ELSE IF args[1] = NilObj THEN Panic(w)
  ELSE IF args[1].type = ARRAY_OBJ
    THEN IF Len(args[1].Elements) < 1 THEN Ret(NULL, w)
         ELSE newArray(w, Tail(args[1].Elements))
  ELSE newError(w, "argument to 'rest' must be ARRAY, got %s", <<TypeArg(args[1])>>)

BuiltinPush(w, args) ==
  IF Len(args) # 2
    THEN newError(w, "wrong number of arguments. got=%d, want=2", <<Itoa(Len(args))>>)
  ELSE IF args[1] = NilObj THEN Panic(w)
  ELSE IF args[1].type = ARRAY_OBJ THEN newArray(w, Append(args[1].Elements, args[2]))
  ELSE newError(w, "argument to 'push' must be ARRAY, got %s", <<TypeArg(args[1])>>)

\* puts prints arg.Inspect() of every argument; world.out keeps the objects printed
BuiltinPuts(w, args) ==
  IF \E i \in 1..Len(args) : args[i] = NilObj THEN Panic(w)
  ELSE Ret(NULL, [w EXCEPT !.out = @ \o args])

CallBuiltin(w, name, args) ==
  CASE name = Spell.len -> BuiltinLen(w, args)
    [] name = Spell.first -> BuiltinFirst(w, args)
    [] name = Spell.last -> BuiltinLast(w, args)
    [] name = Spell.rest -> BuiltinRest(w, args)
    [] name = Spell.push -> BuiltinPush(w, args)
    [] name = Spell.puts -> BuiltinPuts(w, args)

\* the last element is out of range
evalArrayIndexExpressionShort(w, array, index) ==
  LET idx == index.Value
      max == Len(array.Elements) - 1
  IN IF idx < 0 \/ idx >= max THEN Ret(NULL, w) ELSE Ret(array.Elements[idx + 1], w)

evalArrayIndexExpression(w, array, index) ==
  LET idx == index.Value
      max == Len(array.Elements) - 1
  IN IF idx < 0 \/ idx > max THEN Ret(NULL, w) ELSE Ret(array.Elements[idx + 1], w)

evalIndexExpression(w, left, index) ==
  IF left = NilObj THEN Panic(w)
  ELSE IF left.type = ARRAY_OBJ /\ index = NilObj THEN Panic(w)
  ELSE IF left.type = ARRAY_OBJ /\ index.type = INTEGER_OBJ
    THEN evalArrayIndexExpression(w, left, index)
    ELSE newError(w, "index operator not supported: %s", <<TypeArg(left)>>)

evalBangOperatorExpression(w, val) ==
  IF val = TRUE_OBJ THEN Ret(FALSE_OBJ, w)
  ELSE IF val = FALSE_OBJ THEN Ret(TRUE_OBJ, w)
  ELSE IF val = NULL THEN Ret(TRUE_OBJ, w)
  ELSE Ret(FALSE_OBJ, w)

evalMinusPrefixOperator(w, val) ==
  IF val = NilObj THEN Panic(w)
  ELSE IF val.type # INTEGER_OBJ
    THEN newError(w, "unknown operator: -%s", <<TypeArg(val)>>)
    ELSE newInteger(w, -val.Value)

evalPrefixExpressions(w, op, val) ==
  CASE op = <<"!">> -> evalBangOperatorExpression(w, val)
    [] op = <<"-">> -> evalMinusPrefixOperator(w, val)
    [] OTHER -> IF val = NilObj THEN Panic(w)
                ELSE newError(w, "unknown operator: %s%s", <<op, TypeArg(val)>>)

Abs(n) == IF n < 0 THEN -n ELSE n

\* Go's integer division truncates toward zero
Quot(a, b) == IF (a < 0) = (b < 0) THEN Abs(a) \div Abs(b) ELSE -(Abs(a) \div Abs(b))

evalInfixIntegerExpression(w, op, right, left) ==
  LET right_val == right.Value
      left_val == left.Value
  IN CASE op = <<"+">> -> newInteger(w, right_val + left_val)
       [] op = <<"-">> -> newInteger(w, left_val - right_val)
       [] op = <<"*">> -> newInteger(w, right_val * left_val)
       [] op = <<"/">> -> IF right_val = 0 THEN Panic(w)
                          ELSE newInteger(w, Quot(left_val, right_val))
       [] op = <<">">> -> Ret(nativeBoolObject(left_val > right_val), w)
       [] op = <<"<">> -> Ret(nativeBoolObject(left_val < right_val), w)
       [] op = <<"=", "=">> -> Ret(nativeBoolObject(left_val = right_val), w)
       [] op = <<"!", "=">> -> Ret(nativeBoolObject(left_val # right_val), w)
       [] OTHER -> newError(w, "unknown operator: %s %s %s",
                            <<TypeArg(left), op, TypeArg(right)>>)

evalInfixStringExpression(w, op, right, left) ==
  IF op # <<"+">>
    THEN newError(w, "unknown operator: %s %s %s", <<TypeArg(left), op, TypeArg(right)>>)
    ELSE newString(w, left.Value \o right.Value)

\* two Strings are not sent to evalInfixStringExpression
evalInfixExpressionNoString(w, op, right, left) ==
  IF right = NilObj THEN Panic(w)
  ELSE IF right.type \in {INTEGER_OBJ, STRING_OBJ} /\ left = NilObj THEN Panic(w)
  ELSE CASE right.type = INTEGER_OBJ /\ left.type = INTEGER_OBJ ->
              evalInfixIntegerExpression(w, op, right, left)
         [] op = <<"=", "=">> -> Ret(nativeBoolObject(left = right), w)
         [] op = <<"!", "=">> -> Ret(nativeBoolObject(right # left), w)
         [] left = NilObj -> Panic(w)
         [] right.type # left.type ->
              newError(w, "type mismatch: %s %s %s", <<TypeArg(left), op, TypeArg(right)>>)
         [] OTHER ->
              newError(w, "unknown operator: %s %s %s", <<TypeArg(left), op, TypeArg(right)>>)

evalInfixExpression(w, op, right, left) ==
  IF right = NilObj THEN Panic(w)
  ELSE IF right.type \in {INTEGER_OBJ, STRING_OBJ} /\ left = NilObj THEN Panic(w)
  ELSE CASE right.type = INTEGER_OBJ /\ left.type = INTEGER_OBJ ->
              evalInfixIntegerExpression(w, op, right, left)
         [] right.type = STRING_OBJ /\ left.type = STRING_OBJ ->
              evalInfixStringExpression(w, op, right, left)
         [] op = <<"=", "=">> -> Ret(nativeBoolObject(left = right), w)
         [] op = <<"!", "=">> -> Ret(nativeBoolObject(right # left), w)
         [] left = NilObj -> Panic(w)
         [] right.type # left.type ->
              newError(w, "type mismatch: %s %s %s", <<TypeArg(left), op, TypeArg(right)>>)
         [] OTHER ->
              newError(w, "unknown operator: %s %s %s", <<TypeArg(left), op, TypeArg(right)>>)

evalIdentifier(w, node, env) ==
  LET g == EnvGet(w, env, node.Value)
  IN IF g.ok THEN Ret(g.val, w)
     ELSE IF node.Value \in BuiltinNames THEN Ret(Builtin(node.Value), w)
     ELSE newError(w, "identifier not found: %s", <<node.Value>>)

RECURSIVE Eval(_, _, _)
RECURSIVE EvalNode(_, _, _)
RECURSIVE evalProgramLoop(_, _, _, _)
RECURSIVE evalStatementsLoop(_, _, _, _)
RECURSIVE evalExpressionsLoop(_, _, _, _)
RECURSIVE bindParameters(_, _, _, _, _)

\* the program yields the ReturnValue as a block does
evalProgramLoopCarrier(w, stmts, env, lastResult) ==
  IF stmts = <<>> THEN Ret(lastResult, w)
  ELSE With(Eval(Head(stmts), env, w), LAMBDA r :
         IF r.w.panic THEN r
         ELSE IF r.val # NilObj /\ r.val.type = RETURN_VALUE_OBJ THEN r
         ELSE IF r.val # NilObj /\ r.val.type = ERROR_OBJ THEN r
         ELSE evalProgramLoop(r.w, Tail(stmts), env, r.val))

\* the loop of evalProgram over the statements not yet evaluated; lastResult
\* is the result of the statement evaluated last
evalProgramLoop(w, stmts, env, lastResult) ==
  IF stmts = <<>> THEN Ret(lastResult, w)
  ELSE With(Eval(Head(stmts), env, w), LAMBDA r :
         IF r.w.panic THEN r
         ELSE IF r.val # NilObj /\ r.val.type = RETURN_VALUE_OBJ THEN Ret(r.val.Value, r.w)
         ELSE IF r.val # NilObj /\ r.val.type = ERROR_OBJ THEN r
         ELSE evalProgramLoop(r.w, Tail(stmts), env, r.val))

evalProgram(w, prog, env) == evalProgramLoop(w, prog.Statements, env, NilObj)

\* a statement without a result leaves the result of the one before it
evalStatementsLoopKeeping(w, stmts, env, lastResult) ==
  IF stmts = <<>> THEN Ret(lastResult, w)
  ELSE With(Eval(Head(stmts), env, w), LAMBDA r :
         IF r.w.panic THEN r
         ELSE IF r.val # NilObj /\ (r.val.type = RETURN_VALUE_OBJ \/ r.val.type = ERROR_OBJ)
           THEN r
           ELSE evalStatementsLoop(r.w, Tail(stmts), env,
                                   IF r.val = NilObj THEN lastResult ELSE r.val))

\* the loop of evalStatements
evalStatementsLoop(w, stmts, env, lastResult) ==
  IF stmts = <<>> THEN Ret(lastResult, w)
  ELSE With(Eval(Head(stmts), env, w), LAMBDA r :
         IF r.w.panic THEN r
         ELSE IF r.val # NilObj /\ (r.val.type = RETURN_VALUE_OBJ \/ r.val.type = ERROR_OBJ)
           THEN r
           ELSE evalStatementsLoop(r.w, Tail(stmts), env, r.val))

evalStatements(w, stmts, env) == evalStatementsLoop(w, stmts, env, NilObj)

\* the loop of evalExpressions: returns [list, w]
evalExpressionsLoop(w, exps, env, res) ==
  IF exps = <<>> THEN [list |-> res, w |-> w]
  ELSE With(Eval(Head(exps), env, w), LAMBDA evaluated :
         IF evaluated.w.panic THEN [list |-> <<>>, w |-> evaluated.w]
         ELSE IF isError(evaluated.val) THEN [list |-> <<evaluated.val>>, w |-> evaluated.w]
         ELSE evalExpressionsLoop(evaluated.w, Tail(exps), env, Append(res, evaluated.val)))

evalExpressions(w, exps, env) == evalExpressionsLoop(w, exps, env, <<>>)

\* NULL is falsy too
evalIfExpressionNullFalsy(w, ie, env) ==
  With(Eval(ie.Condition, env, w), LAMBDA res :
    IF res.w.panic \/ isError(res.val) THEN res
    ELSE IF res.val = NilObj THEN Panic(res.w)
    ELSE IF res.val = NULL \/ res.val = FALSE_OBJ
      THEN IF ie.Alternatives = Nil THEN Ret(NULL, res.w)
           ELSE Eval(ie.Alternatives, env, res.w)
      ELSE Eval(ie.Consequence, env, res.w))

evalIfExpression(w, ie, env) ==
  With(Eval(ie.Condition, env, w), LAMBDA res :
    IF res.w.panic \/ isError(res.val) THEN res
    ELSE IF res.val = NilObj THEN Panic(res.w)
    ELSE IF res.val.type = BOOLEAN_OBJ /\ (res.val = NULL \/ res.val = FALSE_OBJ)
      THEN IF ie.Alternatives = Nil THEN Ret(NULL, res.w)
           ELSE Eval(ie.Alternatives, env, res.w)
      ELSE Eval(ie.Consequence, env, res.w))

\* the loop of applyFunction that binds parameter paramID (1-based) and the
\* ones after it: [ok, w], ok = FALSE when params[paramID] is out of range
bindParameters(w, new_env, parameters, params, paramID) ==
  IF paramID > Len(parameters) THEN [ok |-> TRUE, w |-> w]
  ELSE IF paramID > Len(params) THEN [ok |-> FALSE, w |-> w]
  ELSE bindParameters(EnvSet(w, new_env, parameters[paramID].Value, params[paramID]),
                      new_env, parameters, params, paramID + 1)

\* the body of applyFunction
applyFunctionBody(w, fn, params) ==
  IF fn = NilObj THEN Panic(w)
  ELSE IF fn.type = FUNCTION_OBJ
    THEN With(NewEnclosedEnviroment(w, fn.Env), LAMBDA ne :
         With(bindParameters(ne.w, ne.env, fn.Parameters, params, 1), LAMBDA b :
           IF ~b.ok THEN Panic(b.w)
           ELSE With(Eval(fn.Body, ne.env, b.w), LAMBDA evaluated :
                  IF evaluated.w.panic THEN evaluated
                  ELSE IF evaluated.val # NilObj /\ evaluated.val.type = RETURN_VALUE_OBJ
                    THEN Ret(evaluated.val.Value, evaluated.w)
                    ELSE evaluated)))
  ELSE IF fn.type = BUILTIN_OBJ
    THEN IF Len(params) # 1
           THEN newError(w, "wrong number of arguments. got=%d, want=1", <<Itoa(Len(params))>>)
           ELSE CallBuiltin(w, fn.Fn, params)
  ELSE newError(w, "not a function: %s", <<TypeArg(fn)>>)

\* world.log gets one more event
Logged(w, event) == [w EXCEPT !.log = Append(@, event)]

\* applyFunction(fn, params); world.log records the call with its arguments
\* and, when the call returns, what it returned
applyFunction(w, fn, params) ==
  With(applyFunctionBody(Logged(w, [ev |-> "call", fn |-> fn, params |-> params]), fn, params),
       LAMBDA r :
         IF r.w.panic THEN r
         ELSE Ret(r.val, Logged(r.w, [ev |-> "return", fn |-> fn, params |-> params,
                                      val |-> r.val])))

\* the type switch of Eval(node, env)
EvalNode(node, env, w) ==
  CASE node.kind = "Program" -> evalProgram(w, node, env)
    [] node.kind = "ExpressionStatement" -> Eval(node.Expression, env, w)
    [] node.kind = "IntegerLiteral" -> newInteger(w, node.Value)
    [] node.kind = "Boolean" -> Ret(nativeBoolObject(node.Value), w)
    [] node.kind = "PrefixExpression" ->
         With(Eval(node.Right, env, w), LAMBDA right :
           IF right.w.panic \/ isError(right.val) THEN right
           ELSE evalPrefixExpressions(right.w, node.Operator, right.val))
    [] node.kind = "InfixExpression" ->
         With(Eval(node.Left, env, w), LAMBDA left :
           IF left.w.panic \/ isError(left.val) THEN left
           ELSE With(Eval(node.Right, env, left.w), LAMBDA right :
                  IF right.w.panic \/ isError(right.val) THEN right
                  ELSE evalInfixExpression(right.w, node.Operator, right.val, left.val)))
    [] node.kind = "IfExpression" -> evalIfExpression(w, node, env)
    [] node.kind = "BlockStatements" -> evalStatements(w, node.Statements, env)
    [] node.kind = "ReturnStatement" ->
         With(Eval(node.ReturnValue, env, w), LAMBDA val :
           IF val.w.panic \/ isError(val.val) THEN val
           ELSE newReturnValue(val.w, val.val))
    [] node.kind = "LetStatement" ->
         With(Eval(node.Value, env, w), LAMBDA exp :
           IF exp.w.panic \/ isError(exp.val) THEN exp
           ELSE Ret(NilObj, EnvSet(exp.w, env, node.Name.Value, exp.val)))
    [] node.kind = "Identifier" -> evalIdentifier(w, node, env)
    [] node.kind = "FunctionLiteral" -> newFunction(w, node.Parameters, node.Body, env)
    [] node.kind = "CallExpression" ->
         With(Eval(node.Function, env, w), LAMBDA function :
           IF function.w.panic \/ isError(function.val) THEN function
           ELSE With(evalExpressions(function.w, node.Arguments, env), LAMBDA params :
                  IF params.w.panic THEN Panic(params.w)
                  ELSE IF Len(params.list) = 1 /\ isError(params.list[1])
                    THEN Ret(params.list[1], params.w)
                    ELSE applyFunction(params.w, function.val, params.list)))
    [] node.kind = "StringLiteral" -> newString(w, node.Value)
    [] node.kind = "Array" ->
         With(evalExpressions(w, node.Items, env), LAMBDA ele :
           IF ele.w.panic THEN Panic(ele.w)
           ELSE IF Len(ele.list) = 1 /\ isError(ele.list[1])
             THEN Ret(ele.list[1], ele.w)
             ELSE newArray(ele.w, ele.list))
    [] node.kind = "IndexExpression" ->
         With(Eval(node.LeftExpression, env, w), LAMBDA leftexp :
           IF leftexp.w.panic THEN leftexp
           ELSE With(Eval(node.Index, env, leftexp.w), LAMBDA index :
                  IF index.w.panic THEN index
                  ELSE IF isError(leftexp.val) THEN Ret(leftexp.val, index.w)
                  ELSE IF isError(index.val) THEN index
                  ELSE evalIndexExpression(index.w, leftexp.val, index.val)))
    [] OTHER -> Ret(NilObj, w)

\* Eval(node, env); world.log records that Eval is entered for the node and,
\* when it returns, the object it returned
Eval(node, env, w) ==
  With(EvalNode(node, env, Logged(w, [ev |-> "enter", node |-> node, env |-> env])),
       LAMBDA r :
         IF r.w.panic THEN r
         ELSE Ret(r.val, Logged(r.w, [ev |-> "exit", node |-> node, env |-> env,
                                      val |-> r.val])))

(***************************************************************************)
(* The run of one source text: the lexer and the parser are made, the      *)
(* program is parsed, and a program parsed without errors is evaluated in  *)
(* a fresh environment.                                                     *)
(***************************************************************************)
World0 == [envs |-> <<>>, next |-> 1, log |-> <<>>, out |-> <<>>, panic |-> FALSE]

NoParser == [l |-> LexerNew(<<>>), curToken |-> Token("", <<>>),
             peakToken |-> Token("", <<>>), errors |-> <<>>,
             trace |-> <<>>, lexed |-> <<>>]

InitWith(inputs) ==
  /\ src \in inputs
  /\ pc = "start"
  /\ parser = NoParser
  /\ program = Nil
  /\ result = NilObj
  /\ world = World0

NewParser ==
  /\ pc = "start"
  /\ parser' = ParserNew(LexerNew(src))
  /\ pc' = "ready"
  /\ UNCHANGED <<src, program, result, world>>

DoParseProgram ==
  /\ pc = "ready"
  /\ \E r \in {ParseProgram(parser)} :
       /\ program' = r.node
       /\ parser' = r.p
  /\ pc' = "parsed"
  /\ UNCHANGED <<src, result, world>>

ReportErrors ==
  /\ pc = "parsed"
  /\ Len(parser.errors) # 0
  /\ pc' = "rejected"
  /\ UNCHANGED <<src, parser, program, result, world>>

DoEval ==
  /\ pc = "parsed"
  /\ Len(parser.errors) = 0
  /\ \E r \in {Eval(program, NewEnviroment(world).env, NewEnviroment(world).w)} :
       /\ result' = r.val
       /\ world' = r.w
  /\ pc' = "done"
  /\ UNCHANGED <<src, parser, program>>

Next == NewParser \/ DoParseProgram \/ ReportErrors \/ DoEval

(***************************************************************************)
(* Operator expressions.  A chain is 1 op 2 op 3 ..., one operand of which *)
(* may be decorated with a prefix operator or be a parenthesised group.    *)
(***************************************************************************)
MaxOps == 2

OpWords == {"eq", "neq", "<", ">", "+", "-", "*", "/"}

Decorations == {"neg", "bang", "bangneg", "group", "neggroup"}

Operand(i, deco) ==
  LET d == Itoa(i)[1]
  IN CASE deco = "neg" -> <<"-", d>>
       [] deco = "bang" -> <<"!", d>>
       [] deco = "bangneg" -> <<"!", "-", d>>
       [] deco = "group" -> <<"(", d, "+", "5", ")">>
       [] deco = "neggroup" -> <<"-", "(", d, "+", "5", ")">>
       [] OTHER -> <<d>>

\* the words of the chain with the operators ops, operand pos decorated
RECURSIVE ChainWords(_, _, _, _)
ChainWords(ops, pos, deco, i) ==
  Operand(i, IF i = pos THEN deco ELSE "plain")
    \o (IF i > Len(ops) THEN <<>> ELSE <<ops[i]>> \o ChainWords(ops, pos, deco, i + 1))

OpSeqs == UNION {[1..n -> OpWords] : n \in 1..MaxOps}

ExprExamples ==
  {Source(<<"1", "+", "2", "*", "3">>),
   Source(<<"(", "1", "+", "2", ")", "*", "3">>),
   Dense(<<"-", "1", "+", "2", "*", "3">>)}

ExprSources ==
  {Source(ChainWords(ops, 0, "plain", 1)) : ops \in OpSeqs}
    \cup UNION {{Source(ChainWords(ops, pos, deco, 1)) : pos \in 1..(Len(ops) + 1)} :
                  ops \in OpSeqs, deco \in Decorations}
    \cup ExprExamples

\* a token stream that is not an expression
ExprMalformed == {Source(<<"1", "+">>)}

InitExpr == InitWith(ExprSources \cup ExprMalformed)

SpecExpr == InitExpr /\ [][Next]_vars

\* the tokens of a text, by the lexer
RECURSIVE TokensFrom(_)
TokensFrom(l) ==
  LET r == NextToken(l)
  IN IF r.tok.Type = EOF THEN <<>> ELSE <<r.tok>> \o TokensFrom(r.l)

Tokens(input) == TokensFrom(LexerNew(input))

\* how tightly a binary operator binds, per the precedence levels EQUALS <
\* LESSGREATER < SUM < PRODUCT
Binding ==
  (EQ :> 1) @@ (NEQ :> 1) @@ (LE :> 2) @@ (GR :> 2) @@
  (PLUS :> 3) @@ (MINUS :> 3) @@ (STAR :> 4) @@ (SLASH :> 4)

\* the number of parentheses open before token i
RECURSIVE ParenDepth(_, _)
ParenDepth(toks, i) ==
  IF i <= 1 THEN 0
  ELSE ParenDepth(toks, i - 1)
         + (IF toks[i - 1].Type = LP THEN 1 ELSE 0)
         - (IF toks[i - 1].Type = RP THEN 1 ELSE 0)

\* token i is a binary operator outside every parenthesised group: it
\* follows the end of an operand
BinaryAt(toks, i) ==
  /\ toks[i].Type \in DOMAIN Binding
  /\ i > 1
  /\ toks[i - 1].Type \in {INT, RP}
  /\ ParenDepth(toks, i) = 0

Max(S) == CHOOSE x \in S : \A y \in S : y <= x
Min(S) == CHOOSE x \in S : \A y \in S : x <= y

\* the tree the precedence rules give a well-formed operator expression:
\* its root is the last of the binary operators that bind least (so a
\* tighter operator lies deeper, equal ones group to the left); without a
\* binary operator a prefix operator applies to all that follows, a group
\* stands for the expression in it
RECURSIVE RefTree(_)
RefTree(toks) ==
  LET B == {i \in 1..Len(toks) : BinaryAt(toks, i)}
  IN IF B # {}
       THEN LET m == Min({Binding[toks[i].Type] : i \in B})
                k == Max({i \in B : Binding[toks[i].Type] = m})
            IN InfixExpression(toks[k].Literal,
                               RefTree(SubSeq(toks, 1, k - 1)),
                               RefTree(SubSeq(toks, k + 1, Len(toks))))
     ELSE IF toks[1].Type \in {MINUS, EXCLA}
       THEN PrefixExpression(toks[1].Literal, RefTree(Tail(toks)))
     ELSE IF toks[1].Type = LP
       THEN RefTree(SubSeq(toks, 2, Len(toks) - 1))
     ELSE IntegerLiteral(DigitsToInt(toks[1].Literal, 10, 0))

IsInteger(obj, n) == obj # NilObj /\ obj.type = INTEGER_OBJ /\ obj.Value = n

\* C1: for a well-formed stream of integer literals, prefix operators, binary
\* operators and parentheses, parsing records no error and builds the tree in
\* which a tighter operator binds first, equal operators group to the left, a
\* prefix operator binds tighter than every binary one and a group is one
\* operand; 1 + 2 * 3 evaluates to 7, (1 + 2) * 3 to 9 and -1+2*3 to 5.
C1_Precedence ==
  /\ (pc \in {"parsed", "done"} /\ src \in ExprSources) =>
       /\ parser.errors = <<>>
       /\ program = Program(<<ExpressionStatement(RefTree(Tokens(src)))>>)
  /\ (pc = "done" /\ src = Source(<<"1", "+", "2", "*", "3">>)) => IsInteger(result, 7)
  /\ (pc = "done" /\ src = Source(<<"(", "1", "+", "2", ")", "*", "3">>)) => IsInteger(result, 9)
  /\ (pc = "done" /\ src = Dense(<<"-", "1", "+", "2", "*", "3">>)) => IsInteger(result, 5)

\* a chain whose second operator binds tighter than its first, parsed and evaluated
C1_Witness ==
  /\ pc = "done"
  /\ src = Source(<<"-", "1", "-", "2", "*", "3">>)
  /\ program.Statements[1].Expression.Operator = <<"-">>
  /\ program.Statements[1].Expression.Right.Operator = <<"*">>
  /\ IsInteger(result, -7)

(***************************************************************************)
(* Programs for the evaluator.                                             *)
(***************************************************************************)
MaxNest == 2
MaxParams == 3

AdderProgram ==
  Source(<<"let", "adder", "=", "fn", "(", "x", ")", "{", "fn", "(", "y", ")", "{",
           "x", "+", "y", "}", "}", ";", "adder", "(", "2", ")", "(", "3", ")", ";">>)

\* f is called from a function whose parameter is x; f's own chain has no x
CallerEnvProgram ==
  Source(<<"let", "f", "=", "fn", "(", ")", "{", "x", "}", ";",
           "let", "g", "=", "fn", "(", "x", ")", "{", "f", "(", ")", "}", ";",
           "g", "(", "1", ")">>)

\* a is bound in the defining environment after f was made
LaterBindingProgram ==
  Source(<<"let", "f", "=", "fn", "(", ")", "{", "a", "}", ";",
           "let", "a", "=", "7", ";", "f", "(", ")">>)

ShadowProgram ==
  Source(<<"let", "x", "=", "1", ";", "fn", "(", "x", ")", "{", "x", "}", "(", "2", ")">>)

\* g is called after c, which made it, has returned
AfterReturnProgram ==
  Source(<<"let", "c", "=", "fn", "(", "x", ")", "{", "let", "y", "=", "x", "+", "1", ";",
           "fn", "(", ")", "{", "y", "}", "}", ";",
           "let", "g", "=", "c", "(", "4", ")", ";", "g", "(", ")">>)

TwoClosuresProgram ==
  Source(<<"let", "adder", "=", "fn", "(", "x", ")", "{", "fn", "(", "y", ")", "{",
           "x", "+", "y", "}", "}", ";",
           "let", "a", "=", "adder", "(", "1", ")", ";",
           "let", "b", "=", "adder", "(", "2", ")", ";",
           "a", "(", "5", ")", "+", "b", "(", "5", ")">>)

ClosurePrograms ==
  {AdderProgram, CallerEnvProgram, LaterBindingProgram, ShadowProgram,
   AfterReturnProgram, TwoClosuresProgram}

\* "return 10;" under d nested if-expressions in statement position; the if
\* holds it in its consequence ("then") or its alternative ("else"), and is
\* followed by the statement the tail names
RECURSIVE Nest(_, _, _)
Nest(d, branch, tail) ==
  IF d = 0 THEN <<"return", "n10", ";">>
  ELSE (IF branch = "then"
          THEN <<"if", "(", "true", ")", "{">> \o Nest(d - 1, branch, tail) \o <<"}">>
          ELSE <<"if", "(", "false", ")", "{", "0", "}", "else", "{">>
                 \o Nest(d - 1, branch, tail) \o <<"}">>)
       \o (CASE tail = "return" -> <<"return", Itoa(d)[1], ";">>
             [] tail = "puts" -> <<"puts", "(", Itoa(d)[1], ")", ";">>
             [] OTHER -> <<>>)

InFunction(body) == Source(<<"fn", "(", ")", "{">> \o body \o <<"}", "(", ")">>)

ReturnExample ==
  InFunction(<<"if", "(", "true", ")", "{", "if", "(", "true", ")", "{",
               "return", "n10", ";", "}", "return", "1", ";", "}">>)

\* the inner function returns; the outer body goes on
InnerReturnProgram ==
  InFunction(<<"fn", "(", ")", "{", "return", "1", ";", "}", "(", ")", ";", "2">>)

ReturnPrograms ==
  {InFunction(Nest(d, branch, tail)) :
     d \in 0..MaxNest, branch \in {"then", "else"}, tail \in {"return", "puts", "none"}}
    \cup {ReturnExample, InnerReturnProgram}

\* an if-expression that executes a return, as an operand
IfReturn == <<"if", "(", "true", ")", "{", "return", "1", ";", "}">>

CarrierPrograms ==
  {Source(<<"let", "a", "=">> \o IfReturn \o <<";">>),
   Source(<<"let", "a", "=">> \o IfReturn \o <<";", "a">>),
   Source(<<"[">> \o IfReturn \o <<"]">>),
   Source(<<"[", "2", ",">> \o IfReturn \o <<"]", "[", "1", "]">>),
   Source(<<"puts", "(">> \o IfReturn \o <<")">>),
   Source(<<"fn", "(", "x", ")", "{", "x", "}", "(">> \o IfReturn \o <<")">>),
   InFunction(<<"let", "a", "=">> \o IfReturn \o <<";", "2">>),
   Source(<<"let", "a", "=", "[", "1", ",", "2", "]", ";", "let", "b", "=", "a", "[", "0", "]", ";", "b">>)}

\* an Error arises in one operand; puts(7) is an operand evaluated after it
Marker == <<"puts", "(", "7", ")">>

ErrorPrograms ==
  {Source(<<"-", "foo">>), Source(<<"!", "foo">>), Source(<<"-", "true">>),
   Source(<<"5", "+", "true", ";">>), Source(<<"foo", ";">>),
   Source(<<"foo", "+">> \o Marker), Source(Marker \o <<"+", "foo">>),
   Source(<<"let", "a", "=", "foo", ";">> \o Marker),
   Source(<<"return", "foo", ";">> \o Marker),
   Source(<<"len", "(", "foo", ",">> \o Marker \o <<")">>),
   Source(<<"len", "(">> \o Marker \o <<",", "foo", ")">>),
   Source(<<"foo", "(">> \o Marker \o <<")">>),
   Source(<<"[", "foo", ",">> \o Marker \o <<"]">>),
   Source(<<"[">> \o Marker \o <<",", "foo", "]">>),
   Source(<<"[", "1", "]", "[", "foo", "]">>),
   Source(<<"foo", "[", "1", "]">>),
   Source(<<"foo", "[">> \o Marker \o <<"]">>),
   Source(<<"if", "(", "foo", ")", "{">> \o Marker \o <<"}">>),
   Source(<<"1", "(", "2", ")">>),
   InFunction(<<"foo", ";">> \o Marker),
   InFunction(<<"if", "(", "true", ")", "{", "1", "+", "true", "}">> \o Marker),
   Source(<<"let", "f", "=", "fn", "(", "x", ")", "{", "x", "+", "true", "}", ";",
            "[", "1", ",", "f", "(", "2", ")", ",">> \o Marker \o <<"]">>)}

ParamNames == <<"a", "b", "c", "d", "e">>

RECURSIVE Commas(_)
Commas(words) ==
  IF Len(words) <= 1 THEN words ELSE <<words[1], ",">> \o Commas(Tail(words))

\* a function of m parameters, whose body is parameter j (or 1, when j = 0),
\* called with the k arguments 1, ..., k
ArityProgram(m, k, j) ==
  Source(<<"fn", "(">> \o Commas(SubSeq(ParamNames, 1, m)) \o <<")", "{">>
           \o (IF j = 0 THEN <<"1">> ELSE <<ParamNames[j]>>)
           \o <<"}", "(">> \o Commas([i \in 1..k |-> Itoa(i)[1]]) \o <<")">>)

ArityPrograms ==
  UNION {{ArityProgram(m, k, j) : k \in 0..m, j \in 0..m} : m \in 1..MaxParams}

BuiltinWords == {"len", "first", "last", "rest", "push", "puts"}

ArgumentLists ==
  {<<>>,
   <<"[", "1", ",", "2", "]">>,
   <<"[", "1", ",", "2", "]", ",", "3">>,
   <<"[", "1", ",", "2", "]", ",", "3", ",", "4">>,
   <<"[", "]">>,
   <<"[", "]", ",", "3">>,
   <<"5">>,
   <<"5", ",", "6">>,
   <<"strA">>}

BuiltinPrograms ==
  {Source(<<b, "(">> \o args \o <<")">>) : b \in BuiltinWords, args \in ArgumentLists}

StringEqProgram == Source(<<"strA", "eq", "strA">>)

StringPrograms ==
  {StringEqProgram,
   Source(<<"strA", "eq", "strB">>), Source(<<"strA", "neq", "strA">>),
   Source(<<"strA", "neq", "strB">>), Source(<<"strEmpty", "eq", "strEmpty">>),
   Source(<<"let", "s", "=", "strA", ";", "s", "eq", "s">>),
   Source(<<"strA", "<", "strB">>), Source(<<"strA", "-", "strB">>),
   Source(<<"strA", "+", "strB">>), Source(<<"strA", "eq", "1">>),
   Source(<<"true", "eq", "true">>), Source(<<"[", "1", "]", "eq", "[", "1", "]">>)}

\* a text the parser rejects
Malformed == {Source(<<"let", "=", "1", ";">>)}

Programs ==
  ClosurePrograms \cup ReturnPrograms \cup CarrierPrograms \cup ErrorPrograms
    \cup ArityPrograms \cup BuiltinPrograms \cup StringPrograms \cup Malformed

Init == InitWith(Programs)

Spec == Init /\ [][Next]_vars

(***************************************************************************)
(* Reading world.log.                                                      *)
(***************************************************************************)
IsError(obj, format, args) ==
  obj # NilObj /\ obj.type = ERROR_OBJ /\ obj.Message = Msg(format, args)

IsExitOf(event, kind) == event.ev = "exit" /\ event.node.kind = kind

\* the events that opened an evaluation or a call not yet closed after the
\* events a..b, outermost first, where open holds those open before event a;
\* the first half of a..b is scanned (Len makes it so) before the second
RECURSIVE OpenIn(_, _, _, _)
OpenIn(log, a, b, open) ==
  IF a > b THEN open
  ELSE IF a = b
    THEN IF log[a].ev \in {"enter", "call"} THEN Append(open, a)
         ELSE SubSeq(open, 1, Len(open) - 1)
    ELSE With(OpenIn(log, a, (a + b) \div 2, open), LAMBDA half :
           IF Len(half) >= 0 THEN OpenIn(log, ((a + b) \div 2) + 1, b, half) ELSE <<>>)

\* the events open after the first n events
OpenAt(log, n) == OpenIn(log, 1, n, <<>>)

\* the event that opened what event j closes
Opening(log, j) == With(OpenAt(log, j - 1), LAMBDA open : open[Len(open)])

\* name looked up from env through the outer environments, as world.envs
\* stands at the end of the run
RECURSIVE Resolve(_, _)
Resolve(name, env) ==
  IF name \in DOMAIN world.envs[env].store THEN world.envs[env].store[name]
  ELSE IF world.envs[env].outer # 0 THEN Resolve(name, world.envs[env].outer)
  ELSE NilObj

(***************************************************************************)
(* C2                                                                      *)
(***************************************************************************)
\* C2: a function literal captures the environment it is evaluated in; each
\* application evaluates the body in a fresh environment whose outer
\* environment is the captured one and which binds the parameters, so that an
\* identifier of the body resolves through the parameters and the defining
\* chain, never through the caller's environment, also after the defining
\* function has returned; adder(2)(3) is 5.
C2_Closures ==
  pc = "done" =>
    /\ \A j \in DOMAIN world.log :
         IsExitOf(world.log[j], "FunctionLiteral") =>
           /\ world.log[j].val.type = FUNCTION_OBJ
           /\ world.log[j].val.Env = world.log[j].env
    /\ \A c \in DOMAIN world.log :
         (/\ world.log[c].ev = "call"
          /\ world.log[c].fn.type = FUNCTION_OBJ
          /\ Len(world.log[c].params) >= Len(world.log[c].fn.Parameters)) =>
           /\ c < Len(world.log)
           /\ world.log[c + 1].ev = "enter"
           /\ world.log[c + 1].node = world.log[c].fn.Body
           /\ world.envs[world.log[c + 1].env].outer = world.log[c].fn.Env
           /\ \A k \in 1..c : world.log[k].ev \in {"enter", "exit"} =>
                world.log[k].env # world.log[c + 1].env
           /\ \A i \in DOMAIN world.log[c].fn.Parameters :
                Resolve(world.log[c].fn.Parameters[i].Value, world.log[c + 1].env)
                  \in {world.log[c].params[n] : n \in DOMAIN world.log[c].params}
    /\ \A j \in DOMAIN world.log :
         (IsExitOf(world.log[j], "Identifier") /\ ~isError(world.log[j].val)) =>
           world.log[j].val \in {Resolve(world.log[j].node.Value, world.log[j].env),
                                 Builtin(world.log[j].node.Value)}
    /\ src = AdderProgram => IsInteger(result, 5)
    /\ src = CallerEnvProgram => IsError(result, "identifier not found: %s", <<<<"x">>>>)
    /\ src = LaterBindingProgram => IsInteger(result, 7)
    /\ src = ShadowProgram => IsInteger(result, 2)
    /\ src = AfterReturnProgram => IsInteger(result, 5)
    /\ src = TwoClosuresProgram => IsInteger(result, 13)

\* adder(2)(3) has run: the inner function, made in the environment of the
\* call adder(2), was applied after that call returned
C2_Witness ==
  /\ pc = "done"
  /\ src = AdderProgram
  /\ IsInteger(result, 5)
  /\ \E c \in DOMAIN world.log :
       /\ world.log[c].ev = "call"
       /\ world.log[c].fn.type = FUNCTION_OBJ
       /\ world.log[c].fn.Env # 1
       /\ world.envs[world.log[c].fn.Env].outer = 1

(***************************************************************************)
(* C3                                                                      *)
(***************************************************************************)
\* the place in OpenAt(log, j - 1) of the innermost call open at event j (0: none)
InnermostCall(log, open) ==
  Max({0} \cup {i \in DOMAIN open : log[open[i]].ev = "call"})

\* the statement that exits at event j lies below blocks and if-expressions
\* in statement position only
InStatementPosition(log, j, open, call) ==
  \A i \in (call + 1)..Len(open) :
    /\ log[open[i]].node.kind \in
         {"BlockStatements", "ExpressionStatement", "IfExpression", "ReturnStatement"}
    /\ log[open[i]].node.kind = "ReturnStatement" => i = Len(open)
    /\ log[open[i]].node.kind = "IfExpression" =>
         (i < Len(open) /\ log[open[i + 1]].node.kind = "BlockStatements")

\* after event j every evaluation open in the function body exits with the
\* value of event j, innermost first and with nothing evaluated in between;
\* then the call returns the value the ReturnValue carries
Unwinds(log, j, open, call) ==
  /\ j + (Len(open) - call) <= Len(log)
  /\ \A i \in 1..(Len(open) - call - 1) :
       /\ log[j + i].ev = "exit"
       /\ log[j + i].node = log[open[Len(open) - i]].node
       /\ log[j + i].val = log[j].val
  /\ log[j + (Len(open) - call)].ev = "return"
  /\ log[j + (Len(open) - call)].fn = log[open[call]].fn
  /\ log[j + (Len(open) - call)].val = log[j].val.Value
  /\ log[j + (Len(open) - call)].val.type # RETURN_VALUE_OBJ

\* the return statement that exits at event j yields a ReturnValue while a
\* Function is being applied
ReturnsInFunction(log, j, open, call) ==
  /\ IsExitOf(log[j], "ReturnStatement")
  /\ log[j].val # NilObj
  /\ log[j].val.type = RETURN_VALUE_OBJ
  /\ call > 0
  /\ log[open[call]].fn.type = FUNCTION_OBJ

\* C3: a return statement executed anywhere in a function body, inside nested
\* blocks or nested if-expressions, ends that function call at once: no
\* further evaluation happens in the body, and the call yields the returned
\* value.
C3_ReturnTerminatesCall ==
  pc = "done" =>
    \A j \in DOMAIN world.log :
      With(OpenAt(world.log, j - 1), LAMBDA open :
        ReturnsInFunction(world.log, j, open, InnermostCall(world.log, open)) =>
          Unwinds(world.log, j, open, InnermostCall(world.log, open)))

\* where the blocks and if-expressions around the return statement are all in
\* statement position, the ReturnValue does reach the function application
\* unchanged; the nested example yields 10 and the statements after an
\* executed return are not evaluated
ReturnThroughBlocks ==
  pc = "done" =>
    /\ \A j \in DOMAIN world.log :
         With(OpenAt(world.log, j - 1), LAMBDA open :
           (/\ ReturnsInFunction(world.log, j, open, InnermostCall(world.log, open))
            /\ InStatementPosition(world.log, j, open, InnermostCall(world.log, open))) =>
             Unwinds(world.log, j, open, InnermostCall(world.log, open)))
    /\ src \in ReturnPrograms \ {InnerReturnProgram} =>
         (IsInteger(result, 10) /\ world.out = <<>>)
    /\ src = InnerReturnProgram => IsInteger(result, 2)

(***************************************************************************)
(* C4                                                                      *)
(***************************************************************************)
\* C4: as soon as the evaluation of an operand (of a prefix or infix
\* operator, a let or return value, a call's function or arguments, an
\* array's elements, the target or the index of an index expression) yields
\* an Error, nothing more is evaluated: every evaluation and call still open
\* yields that same Error, up to the result of the program.
C4_ErrorShortCircuits ==
  pc = "done" =>
    \A j \in DOMAIN world.log :
      (world.log[j].ev = "exit" /\ isError(world.log[j].val)) =>
        /\ \A k \in (j + 1)..Len(world.log) :
             /\ world.log[k].ev \in {"exit", "return"}
             /\ world.log[k].val = world.log[j].val
        /\ ~world.panic
        /\ result = world.log[j].val

(***************************************************************************)
(* C5                                                                      *)
(***************************************************************************)
\* a ReturnValue or an Error: a carrier of control flow
IsCarrier(obj) == obj # NilObj /\ obj.type \in {RETURN_VALUE_OBJ, ERROR_OBJ}

\* C5: no ReturnValue and no Error is ever bound in an environment, held as
\* an element of an Array, or passed to a function as an argument.
C5_NoCarrierStored ==
  /\ \A e \in DOMAIN world.envs :
       \A name \in DOMAIN world.envs[e].store : ~IsCarrier(world.envs[e].store[name])
  /\ \A j \in DOMAIN world.log :
       /\ world.log[j].ev = "call" =>
            \A i \in DOMAIN world.log[j].params : ~IsCarrier(world.log[j].params[i])
       /\ (/\ world.log[j].ev \in {"exit", "return"}
           /\ world.log[j].val # NilObj
           /\ world.log[j].val.type = ARRAY_OBJ) =>
            \A i \in DOMAIN world.log[j].val.Elements :
              ~IsCarrier(world.log[j].val.Elements[i])

(***************************************************************************)
(* C6                                                                      *)
(***************************************************************************)
\* event c is the application of a Function to fewer arguments than it has
\* parameters
FewerArguments(log, c) ==
  /\ log[c].ev = "call"
  /\ log[c].fn.type = FUNCTION_OBJ
  /\ Len(log[c].params) < Len(log[c].fn.Parameters)

\* C6: applying a Function to fewer arguments than it has parameters does not
\* fail at the call: the body is evaluated in a new environment that binds
\* the leading parameters to the arguments and leaves the others unbound, and
\* the call returns; the result is an "identifier not found" Error only where
\* the body refers to a parameter left unbound.
C6_FewerArguments ==
  pc = "done" =>
    /\ \A c \in DOMAIN world.log :
         FewerArguments(world.log, c) =>
           /\ ~world.panic
           /\ c < Len(world.log)
           /\ world.log[c + 1].ev = "enter"
           /\ world.log[c + 1].node = world.log[c].fn.Body
           /\ \A i \in DOMAIN world.log[c].fn.Parameters :
                IF i <= Len(world.log[c].params)
                  THEN Resolve(world.log[c].fn.Parameters[i].Value, world.log[c + 1].env)
                         = world.log[c].params[i]
                  ELSE world.log[c].fn.Parameters[i].Value
                         \notin DOMAIN world.envs[world.log[c + 1].env].store
           /\ \E r \in (c + 1)..Len(world.log) :
                /\ world.log[r].ev = "return"
                /\ world.log[r].fn = world.log[c].fn
    /\ \A m \in 1..MaxParams : \A k \in 0..m : \A j \in 0..m :
         src = ArityProgram(m, k, j) =>
           IF j = 0 THEN IsInteger(result, 1)
           ELSE IF j <= k THEN IsInteger(result, j)
           ELSE IsError(result, "identifier not found: %s", <<<<ParamNames[j]>>>>)

(***************************************************************************)
(* C7                                                                      *)
(***************************************************************************)
\* the object without its address
Strip(obj) ==
  IF "addr" \in DOMAIN obj THEN [f \in DOMAIN obj \ {"addr"} |-> obj[f]] ELSE obj

\* C7: a Builtin is applied by handing the whole list of evaluated arguments,
\* whatever its length, to the native handler, so that the call yields what
\* the handler yields for that list: push of an Array of n elements and a
\* value yields an Array of n + 1 elements, and a wrong number of arguments
\* yields the Error of that builtin.
C7_BuiltinArguments ==
  pc = "done" =>
    \A r \in DOMAIN world.log :
      (world.log[r].ev = "return" /\ world.log[r].fn.type = BUILTIN_OBJ) =>
        /\ Strip(world.log[r].val)
             = Strip(CallBuiltin(World0, world.log[r].fn.Fn, world.log[r].params).val)
        /\ (/\ world.log[r].fn.Fn = Spell.push
            /\ Len(world.log[r].params) = 2
            /\ world.log[r].params[1].type = ARRAY_OBJ) =>
             /\ world.log[r].val.type = ARRAY_OBJ
             /\ world.log[r].val.Elements
                  = Append(world.log[r].params[1].Elements, world.log[r].params[2])

(***************************************************************************)
(* C8                                                                      *)
(***************************************************************************)
\* <<l, r>> where events l and r are the exits of the first and of the second
\* operand of the infix or index expression that exits at event j, when both
\* operands were evaluated
OperandExits(log, j) ==
  {<<l, j - 1>> : l \in
     {l \in 1..(j - 2) :
        /\ log[j - 1].ev = "exit"
        /\ log[l].ev = "exit"
        /\ l = Opening(log, j - 1) - 1
        /\ Opening(log, l) = Opening(log, j) + 1}}

BothStrings(log, operands) ==
  /\ log[operands[1]].val # NilObj
  /\ log[operands[2]].val # NilObj
  /\ log[operands[1]].val.type = STRING_OBJ
  /\ log[operands[2]].val.type = STRING_OBJ

\* C8 as stated: == on two String operands compares the two String objects
\* by identity; "a" == "a", on two distinct objects, is the Boolean FALSE.
C8_StringEqIdentity ==
  pc = "done" =>
    /\ \A j \in DOMAIN world.log :
         (IsExitOf(world.log[j], "InfixExpression")
            /\ world.log[j].node.Operator = <<"=", "=">>) =>
           \A operands \in OperandExits(world.log, j) :
             BothStrings(world.log, operands) =>
               world.log[j].val = nativeBoolObject(world.log[operands[1]].val
                                                     = world.log[operands[2]].val)
    /\ src = StringEqProgram => result = FALSE_OBJ

\* C8: an infix operator on two String operands is + and concatenates, or it
\* yields the Error "unknown operator: STRING op STRING"; == is no exception,
\* so "a" == "a" is that Error and not a Boolean.
C8_StringEqIsError ==
  pc = "done" =>
    /\ \A j \in DOMAIN world.log :
         IsExitOf(world.log[j], "InfixExpression") =>
           \A operands \in OperandExits(world.log, j) :
             BothStrings(world.log, operands) =>
               IF world.log[j].node.Operator = <<"+">>
                 THEN /\ world.log[j].val.type = STRING_OBJ
                      /\ world.log[j].val.Value = world.log[operands[1]].val.Value
                                                    \o world.log[operands[2]].val.Value
                 ELSE IsError(world.log[j].val, "unknown operator: %s %s %s",
                              <<<<STRING_OBJ>>, world.log[j].node.Operator, <<STRING_OBJ>>>>)
    /\ src = StringEqProgram =>
         IsError(result, "unknown operator: %s %s %s",
                 <<<<STRING_OBJ>>, <<"=", "=">>, <<STRING_OBJ>>>>)

\* "a" == "a" was evaluated on two distinct String objects of equal text
C8_Witness ==
  /\ pc = "done"
  /\ src = StringEqProgram
  /\ isError(result)
  /\ \E j \in DOMAIN world.log :
       /\ IsExitOf(world.log[j], "InfixExpression")
       /\ \E operands \in OperandExits(world.log, j) :
            /\ BothStrings(world.log, operands)
            /\ world.log[operands[1]].val # world.log[operands[2]].val
            /\ world.log[operands[1]].val.Value = world.log[operands[2]].val.Value

(***************************************************************************)
(* C9                                                                      *)
(***************************************************************************)
MaxArrayLen == 3
MaxIndex == 4

ElementWords == <<"5", "6", "7", "8", "9">>

ArrayWords(n) == <<"[">> \o Commas(SubSeq(ElementWords, 1, n)) \o <<"]">>

IndexWords(i) == IF i < 0 THEN <<"-", Itoa(-i)[1]>> ELSE <<Itoa(i)[1]>>

\* the array literal of n elements, indexed by i
IndexProgram(n, i) == Source(ArrayWords(n) \o <<"[">> \o IndexWords(i) \o <<"]">>)

\* the same through a name bound to the array
BoundIndexProgram(n, i) ==
  Source(<<"let", "a", "=">> \o ArrayWords(n) \o <<";", "a", "[">> \o IndexWords(i) \o <<"]">>)

NonArrayWords ==
  {<<"1">>, <<"true">>, <<"strA">>, <<"len">>, <<"fn", "(", ")", "{", "}">>,
   <<"(", "if", "(", "false", ")", "{", "1", "}", ")">>}

IndexPrograms ==
  {IndexProgram(n, i) : n \in 0..MaxArrayLen, i \in (-MaxIndex)..MaxIndex}
    \cup {BoundIndexProgram(n, i) : n \in 0..MaxArrayLen, i \in (-MaxIndex)..MaxIndex}
    \cup {Source(target \o <<"[">> \o index \o <<"]">>) :
            target \in NonArrayWords, index \in {<<"0">>, <<"true">>}}
    \cup {Source(<<"[", "1", ",", "2", ",", "3", "]", "[", "5", "]">>),
          Source(<<"[", "1", ",", "2", ",", "3", "]", "[", "1", "]">>),
          Source(<<"[", "1", "]", "[">>)}

InitIndex == InitWith(IndexPrograms)

SpecIndex == InitIndex /\ [][Next]_vars

IsValue(obj) == obj # NilObj /\ ~IsCarrier(obj)

\* C9: an Array of n elements indexed by an Integer i yields its element i
\* when 0 <= i < n and NULL otherwise (also for negative i and for n = 0),
\* never an Error; a value that is not an Array, indexed, yields the Error
\* "index operator not supported"; [1,2,3][5] is NULL and [1,2,3][1] is 2.
C9_ArrayIndex ==
  pc = "done" =>
    /\ \A j \in DOMAIN world.log :
         IsExitOf(world.log[j], "IndexExpression") =>
           \A operands \in OperandExits(world.log, j) :
             (IsValue(world.log[operands[1]].val) /\ IsValue(world.log[operands[2]].val)) =>
               IF world.log[operands[1]].val.type # ARRAY_OBJ
                 THEN IsError(world.log[j].val, "index operator not supported: %s",
                              <<<<world.log[operands[1]].val.type>>>>)
               ELSE world.log[operands[2]].val.type = INTEGER_OBJ =>
                 IF /\ 0 <= world.log[operands[2]].val.Value
                    /\ world.log[operands[2]].val.Value
                         < Len(world.log[operands[1]].val.Elements)
                   THEN world.log[j].val =
                          world.log[operands[1]].val.Elements[
                            world.log[operands[2]].val.Value + 1]
                   ELSE world.log[j].val = NULL
    /\ \A n \in 0..MaxArrayLen : \A i \in (-MaxIndex)..MaxIndex :
         src \in {IndexProgram(n, i), BoundIndexProgram(n, i)} =>
           IF 0 <= i /\ i < n THEN IsInteger(result, 5 + i) ELSE result = NULL
    /\ src = Source(<<"[", "1", ",", "2", ",", "3", "]", "[", "5", "]">>) => result = NULL
    /\ src = Source(<<"[", "1", ",", "2", ",", "3", "]", "[", "1", "]">>) =>
         IsInteger(result, 2)

\* an array of MaxArrayLen elements was indexed by -1
C9_Witness ==
  /\ pc = "done"
  /\ src = IndexProgram(MaxArrayLen, -1)
  /\ result = NULL
  /\ \E j \in DOMAIN world.log :
       /\ IsExitOf(world.log[j], "IndexExpression")
       /\ \E operands \in OperandExits(world.log, j) :
            /\ world.log[operands[1]].val.type = ARRAY_OBJ
            /\ Len(world.log[operands[1]].val.Elements) = MaxArrayLen
            /\ IsInteger(world.log[operands[2]].val, -1)

(***************************************************************************)
(* C10                                                                     *)
(***************************************************************************)
\* expressions of the grammar, one or more of every form
ExpressionWords ==
  {<<"1">>, <<"a">>, <<"true">>, <<"strA">>, <<"-", "1">>, <<"!", "true">>,
   <<"1", "+", "2">>, <<"(", "1", "+", "2", ")", "*", "3">>,
   <<"if", "(", "true", ")", "{", "1", "}">>,
   <<"if", "(", "a", "<", "1", ")", "{", "1", "}", "else", "{", "2", ";", "}">>,
   <<"fn", "(", ")", "{", "}">>,
   <<"fn", "(", "x", ",", "y", ")", "{", "x", "+", "y", ";", "}">>,
   <<"f", "(", ")">>, <<"f", "(", "1", ",", "2", ")">>,
   <<"[", "]">>, <<"[", "1", ",", "2", "]">>,
   <<"a", "[", "0", "]">>, <<"[", "1", ",", "2", "]", "[", "0", "]">>,
   <<"{", "}">>, <<"{", "1", ":", "2", "}">>,
   <<"{", "strA", ":", "1", ",", "strB", ":", "2", "}">>}

StatementWords(expression) ==
  {<<"let", "a", "=">> \o expression, <<"return">> \o expression, expression}

\* every statement kind over every expression, with and without the semicolon
ValidPrograms ==
  UNION {{Source(statement), Source(statement \o <<";">>)} :
           statement \in UNION {StatementWords(e) : e \in ExpressionWords}}

InitGrammar == InitWith(ValidPrograms \cup Malformed)

SpecGrammar == InitGrammar /\ [][Next]_vars

\* C10: a program that is valid under the grammar (let, return and
\* expression statements, with or without the semicolon, over if/else,
\* function literals, calls, array literals, index expressions and hash
\* literals, the empty one included) parses with an empty error list.
C10_ValidProgramsParse ==
  (pc \in {"parsed", "rejected", "done"} /\ src \in ValidPrograms) => parser.errors = <<>>

(***************************************************************************)
(* Token sequences.  Every sequence of at most MaxTokens words, and every  *)
(* prefix of some longer texts: the input may end inside a parameter list, *)
(* a block, an argument list, an array or hash literal, or right after a   *)
(* prefix operator.                                                        *)
(***************************************************************************)
MaxTokens == 3

TokenWords == {"let", "a", "=", "1", ";", "(", ")", "{", "}", "[", ",", "-"}

SeqsUpTo(S, n) == UNION {[1..k -> S] : k \in 0..n}

Templates ==
  {<<"fn", "(", "a", ",", "a", ")", "{", "return", "a", ";", "}", "(", "1", ",", "1", ")">>,
   <<"if", "(", "a", ")", "{", "1", "}", "else", "{", "[", "1", ",", "1", "]", "[", "1", "]", "}">>,
   <<"{", "1", ":", "1", ",", "a", ":", "1", "}">>,
   <<"let", "a", "=", "-", "!", "-", "1", ";", "a">>}

Prefixes(words) == {SubSeq(words, 1, k) : k \in 0..Len(words)}

TokenSequences ==
  SeqsUpTo(TokenWords, MaxTokens) \cup UNION {Prefixes(t) : t \in Templates}

InitTokens == InitWith({Source(words) : words \in TokenSequences})

SpecTokens == InitTokens /\ [][Next]_vars

\* ParseProgram has run
Parsed == pc \in {"parsed", "rejected", "done"}

\* the events of parser.trace that end an iteration of the loop
ExitsOf(loop) ==
  {j \in 1..Len(parser.trace) :
     parser.trace[j].ev = "exit" /\ parser.trace[j].loop = loop}

(***************************************************************************)
(* C11                                                                     *)
(***************************************************************************)
\* C11: a statement during whose parsing an error is recorded contributes
\* no node to the Program: the iteration of ParseProgram's loop that
\* recorded an error has a nil statement, which is not appended.  The
\* errors recorded before it are kept, and the statements after it are
\* parsed.
C11_MalformedDropped ==
  Parsed =>
    \A j \in ExitsOf("ParseProgram") :
      With(parser.trace[Opening(parser.trace, j)], LAMBDA entered :
        /\ parser.trace[j].errors >= entered.errors
        /\ parser.trace[j].errors > entered.errors => parser.trace[j].node = Nil
        /\ parser.trace[j].cur # EOF =>
             /\ j < Len(parser.trace)
             /\ parser.trace[j + 1].ev = "enter"
             /\ parser.trace[j + 1].loop = "ParseProgram")

(***************************************************************************)
(* C12                                                                     *)
(***************************************************************************)
MaxChars == 3

LexChars == {"=", "!", "l", "e", "t", "_", "1", " ", "\n", "+", ":", "@"}

\* every keyword and every character with a kind of its own, alone, and some
\* lines with blanks, tabs and line ends between the tokens
LexTexts ==
  {Dense(<<w>>) : w \in {"let", "fn", "true", "false", "if", "else", "return",
                         "-", "*", "/", "<", ">", "(", ")", "{", "}", "[", "]",
                         ",", ";", "A", "n10", "?"}}
    \cup {Dense(<<"let", "\t", "a", "\r", "\n", "=", " ", "n10", ";">>),
          Dense(<<"a", "eq", "b", "neq", "1", "!", "-", "=", "eq", "=">>),
          Dense(<<"if", "(", "a", "<", "1", ")", "{", "return", " ", "true", "}",
                  "else", "{", "[", "1", ",", "2", "]", "}">>),
          Dense(<<"{", "a", ":", "1", "}">>),
          Dense(<<"let", "a", " ", "fn", "_", " ", "1", "a", "?", "1">>)}

InitLex == InitWith(SeqsUpTo(LexChars, MaxChars) \cup LexTexts)

SpecLex == InitLex /\ [][Next]_vars

\* the kinds of the characters that are tokens by themselves
CharKinds ==
  SingleCharKinds @@ ("=" :> ASSIGN) @@ ("!" :> EXCLA) @@ (":" :> COLON)

WhiteSpace == {" ", "\t", "\n", "\r"}

WordChars == LowerCase \cup UpperCase \cup {"_"}

\* the end of the longest run of characters of the class that starts at i
RECURSIVE RunEnd(_, _, _)
RunEnd(text, i, class) ==
  IF i < Len(text) /\ text[i + 1] \in class THEN RunEnd(text, i + 1, class) ELSE i

\* the tokens of the text from position i on, by the token table
RECURSIVE TableTokens(_, _)
TableTokens(text, i) ==
  IF i > Len(text) THEN <<>>
  ELSE IF text[i] \in WhiteSpace THEN TableTokens(text, i + 1)
  ELSE IF text[i] \in {"=", "!"} /\ i < Len(text) /\ text[i + 1] = "="
    THEN <<Token(IF text[i] = "=" THEN EQ ELSE NEQ, <<text[i], "=">>)>>
           \o TableTokens(text, i + 2)
  ELSE IF text[i] \in WordChars
    THEN With(RunEnd(text, i, WordChars), LAMBDA j :
           <<Token(IF SubSeq(text, i, j) \in DOMAIN keywords
                     THEN keywords[SubSeq(text, i, j)] ELSE IDENTIFIER,
                   SubSeq(text, i, j))>> \o TableTokens(text, j + 1))
  ELSE IF text[i] \in Digits
    THEN With(RunEnd(text, i, Digits), LAMBDA j :
           <<Token(INT, SubSeq(text, i, j))>> \o TableTokens(text, j + 1))
  ELSE <<Token(IF text[i] \in DOMAIN CharKinds THEN CharKinds[text[i]] ELSE ILLEGAL,
               <<text[i]>>)>> \o TableTokens(text, i + 1)

\* C12: the successive calls of NextToken return the tokens of the source
\* text in order, with the kind and the literal of the token table (':' is
\* COLON, a character without a kind is ILLEGAL), then EOF with an empty
\* literal at every later call; the parser calls until it has seen EOF.
C12_TokenTable ==
  With(TableTokens(src, 1), LAMBDA expected :
    /\ \A k \in 1..Len(parser.lexed) :
         parser.lexed[k] = IF k <= Len(expected) THEN expected[k] ELSE Token(EOF, <<>>)
    /\ Parsed => Len(parser.lexed) >= Len(expected) + 2)

\* the same with ':' taken for a character without a kind
LexedButColon ==
  With(TableTokens(src, 1), LAMBDA expected :
    \A k \in 1..Len(parser.lexed) :
      parser.lexed[k] =
        IF k > Len(expected) THEN Token(EOF, <<>>)
        ELSE IF expected[k].Type = COLON THEN Token(ILLEGAL, <<":">>)
        ELSE expected[k])

(***************************************************************************)
(* C13                                                                     *)
(***************************************************************************)
\* a return below MaxNest if-expressions or fewer, at the top level of the
\* program and in a function body
TopLevelReturnPrograms ==
  {Source(Nest(d, branch, tail)) :
     d \in 0..MaxNest, branch \in {"then", "else"}, tail \in {"return", "puts", "none"}}

InitReturn == InitWith(TopLevelReturnPrograms \cup ReturnPrograms \cup CarrierPrograms \cup Malformed)

SpecReturn == InitReturn /\ [][Next]_vars

\* event j closes an evaluation or a call whose last step was an evaluation
\* that yielded a ReturnValue
ClosesOverReturn(log, j) ==
  /\ j > 1
  /\ log[j].ev \in {"exit", "return"}
  /\ log[j - 1].ev = "exit"
  /\ log[j - 1].val # NilObj
  /\ log[j - 1].val.type = RETURN_VALUE_OBJ

\* what the evaluations other than the program do with the ReturnValue that
\* their last step yielded: a call yields the object it wraps, a block
\* yields the ReturnValue itself, and nothing else yields the wrapped object
UnwrapsInCallOnly(log, j) ==
  /\ log[j].ev = "return" => log[j].val = log[j - 1].val.Value
  /\ IsExitOf(log[j], "BlockStatements") => log[j].val = log[j - 1].val
  /\ (log[j].ev = "exit" /\ log[j].node.kind \notin {"Program", "BlockStatements"}) =>
       log[j].val # log[j - 1].val.Value

\* C13: a ReturnValue is unwrapped to the object it wraps only by function
\* application; a bare block and the top-level program whose statements
\* execute a return yield the ReturnValue object itself.
C13_UnwrapOnlyInCall ==
  pc = "done" =>
    \A j \in DOMAIN world.log :
      ClosesOverReturn(world.log, j) =>
        /\ UnwrapsInCallOnly(world.log, j)
        /\ IsExitOf(world.log[j], "Program") =>
             (world.log[j].val = world.log[j - 1].val /\ result = world.log[j].val)

\* C13, amended: function application and the top-level program unwrap the
\* ReturnValue; a bare block yields the ReturnValue object itself.
C13_UnwrapInCallAndProgram ==
  pc = "done" =>
    \A j \in DOMAIN world.log :
      ClosesOverReturn(world.log, j) =>
        /\ UnwrapsInCallOnly(world.log, j)
        /\ IsExitOf(world.log[j], "Program") =>
             (world.log[j].val = world.log[j - 1].val.Value /\ result = world.log[j].val)

\* a return inside a block at the top level: the block has yielded the
\* ReturnValue and the program the 10 it wraps
C13_Witness ==
  /\ pc = "done"
  /\ src = Source(Nest(1, "then", "puts"))
  /\ IsInteger(result, 10)
  /\ \E j \in DOMAIN world.log :
       /\ ClosesOverReturn(world.log, j)
       /\ IsExitOf(world.log[j], "BlockStatements")
       /\ world.log[j].val.type = RETURN_VALUE_OBJ

(***************************************************************************)
(* C14                                                                     *)
(***************************************************************************)
\* conditions that yield TRUE, FALSE, NULL, Integers (0 among them), a
\* String, an Array, a Function, a Builtin, an Error, and no object at all
ConditionWords ==
  {<<"true">>, <<"false">>, <<"!", "true">>, <<"!", "0">>, <<"1", "<", "2">>,
   <<"1", ">", "2">>, <<"1", "eq", "1">>, <<"0">>, <<"1">>, <<"-", "1">>,
   <<"strA">>, <<"strEmpty">>, <<"[", "]">>, <<"[", "1", "]", "[", "5", "]">>,
   <<"if", "(", "false", ")", "{", "1", "}">>, <<"puts", "(", "0", ")">>,
   <<"fn", "(", ")", "{", "1", "}">>, <<"len">>, <<"foo">>,
   <<"fn", "(", ")", "{", "}", "(", ")">>}

ThenWords == <<"{", "puts", "(", "1", ")", ";", "1", "}">>

ElseWords == <<"else", "{", "puts", "(", "2", ")", ";", "2", "}">>

IfWords(condition, else) ==
  <<"if", "(">> \o condition \o <<")">> \o ThenWords \o (IF else THEN ElseWords ELSE <<>>)

IfPrograms ==
  UNION {{Source(IfWords(c, else)),
          Source(<<"let", "a", "=">> \o IfWords(c, else) \o <<";", "a">>)} :
           c \in ConditionWords, else \in BOOLEAN}

InitIf == InitWith(IfPrograms \cup Malformed)

SpecIf == InitIf /\ [][Next]_vars

\* the event at which the evaluation that event i opened is closed
RECURSIVE ClosingFrom(_, _, _)
ClosingFrom(log, i, k) ==
  IF k > Len(log) THEN 0
  ELSE IF log[k].ev \in {"exit", "return"} /\ Opening(log, k) = i THEN k
  ELSE ClosingFrom(log, i, k + 1)

Closing(log, i) == ClosingFrom(log, i, i + 1)

\* between the events c and j nothing but the evaluation of the block, in the
\* environment of the if-expression, whose value event j yields
EvaluatesOnly(log, i, c, j, block) ==
  /\ c + 1 < j
  /\ log[c + 1].ev = "enter"
  /\ log[c + 1].node = block
  /\ log[c + 1].env = log[i].env
  /\ Closing(log, c + 1) = j - 1
  /\ log[j].val = log[j - 1].val

\* the if-expression entered at event i and left at event j, whose condition
\* yielded an object other than an Error at event c, evaluated its
\* alternative exactly when that object is FALSE
BranchTaken(log, i, c, j) ==
  IF log[c].val = FALSE_OBJ
    THEN IF log[i].node.Alternatives = Nil
           THEN j = c + 1 /\ log[j].val = NULL
           ELSE EvaluatesOnly(log, i, c, j, log[i].node.Alternatives)
    ELSE EvaluatesOnly(log, i, c, j, log[i].node.Consequence)

\* C14: an if-expression evaluates its alternative (or yields NULL when it
\* has none) exactly when its condition evaluates to the FALSE singleton;
\* for every other condition value that is not an Error, NULL and Integer 0
\* included, it evaluates its consequence; exactly one branch is evaluated.
C14_OnlyFalseIsFalsy ==
  pc = "done" =>
    \A j \in DOMAIN world.log :
      IsExitOf(world.log[j], "IfExpression") =>
        With(Opening(world.log, j), LAMBDA i :
        With(Closing(world.log, i + 1), LAMBDA c :
          /\ world.log[i + 1].node = world.log[i].node.Condition
          /\ c > 0
          /\ world.log[c].val # NilObj
          /\ world.log[c].val.type # ERROR_OBJ => BranchTaken(world.log, i, c, j)))

\* the inner if-expression has a FALSE condition and no alternative and
\* yields NULL; the outer one has that NULL as its condition and evaluates
\* its consequence, not its alternative
C14_Witness ==
  /\ pc = "done"
  /\ src = Source(IfWords(<<"if", "(", "false", ")", "{", "1", "}">>, TRUE))
  /\ IsInteger(result, 1)
  /\ Len(world.out) = 1
  /\ IsInteger(world.out[1], 1)
  /\ \E j \in DOMAIN world.log :
       /\ IsExitOf(world.log[j], "IfExpression")
       /\ world.log[j].val = NULL
       /\ world.log[j - 1].val = FALSE_OBJ

(***************************************************************************)
(* C15                                                                     *)
(***************************************************************************)
MaxStatements == 3

\* an expression statement with a value, a let, an expression statement
\* whose value is NULL, and one that yields no object
SequenceStatements ==
  {<<"5", ";">>, <<"let", "a", "=", "1", ";">>, <<"puts", "(", "2", ")", ";">>,
   <<"fn", "(", ")", "{", "}", "(", ")", ";">>}

RECURSIVE Flatten(_)
Flatten(seqs) == IF seqs = <<>> THEN <<>> ELSE Head(seqs) \o Flatten(Tail(seqs))

\* the sequences as a program, as the body of a function and as the block
\* of an if-expression
SequencePrograms ==
  UNION {{Source(Flatten(stmts)),
          InFunction(Flatten(stmts)),
          Source(<<"if", "(", "true", ")", "{">> \o Flatten(stmts) \o <<"}">>)} :
           stmts \in SeqsUpTo(SequenceStatements, MaxStatements)}

InitSequence == InitWith(SequencePrograms \cup Malformed)

SpecSequence == InitSequence /\ [][Next]_vars

\* the events at which the statements of the sequence entered at event i and
\* left at event j yielded their results
StatementExits(log, i, j) ==
  {k \in (i + 1)..(j - 1) :
     /\ log[k].ev = "exit"
     /\ With(OpenAt(log, k), LAMBDA open : open # <<>> /\ open[Len(open)] = i)}

\* C15: a statement sequence (program or block) that ends without a return
\* or an Error yields the result of the last statement that produced a
\* non-nil result, and no object when no statement produced one: a trailing
\* let does not erase the value of an earlier expression statement.
C15_LastNonNilKept ==
  (pc = "done" /\ ~world.panic) =>
    \A j \in DOMAIN world.log :
      (/\ world.log[j].ev = "exit"
       /\ world.log[j].node.kind \in {"Program", "BlockStatements"}) =>
        With(StatementExits(world.log, Opening(world.log, j), j), LAMBDA exits :
        With({k \in exits : world.log[k].val # NilObj}, LAMBDA valued :
          (\A k \in exits : ~IsCarrier(world.log[k].val)) =>
            world.log[j].val = IF valued = {} THEN NilObj ELSE world.log[Max(valued)].val))

\* C15, amended: the sequence yields the result of the statement evaluated
\* last, which is no object when that statement is a let: a trailing let
\* erases the value of an earlier expression statement.
C15_LastResultKept ==
  (pc = "done" /\ ~world.panic) =>
    \A j \in DOMAIN world.log :
      (/\ world.log[j].ev = "exit"
       /\ world.log[j].node.kind \in {"Program", "BlockStatements"}) =>
        With(StatementExits(world.log, Opening(world.log, j), j), LAMBDA exits :
          (\A k \in exits : ~IsCarrier(world.log[k].val)) =>
            world.log[j].val = IF exits = {} THEN NilObj ELSE world.log[Max(exits)].val)

\* in a function body 5 is evaluated and then a let: the body, and with it
\* the call and the program, yield no object
C15_Witness ==
  /\ pc = "done"
  /\ src = InFunction(<<"5", ";", "let", "a", "=", "1", ";">>)
  /\ result = NilObj
  /\ \E j \in DOMAIN world.log :
       /\ IsExitOf(world.log[j], "BlockStatements")
       /\ world.log[j].val = NilObj
       /\ IsExitOf(world.log[j - 1], "LetStatement")
       /\ \E k \in StatementExits(world.log, Opening(world.log, j), j) :
            IsInteger(world.log[k].val, 5)

(***************************************************************************)
(* C16                                                                     *)
(***************************************************************************)
ParserLoops ==
  {"ParseProgram", "parseBlockStatement", "parseExpression", "parseExpressionList",
   "parseFunctionParameters", "parseHashExpression"}

\* C16: for every token sequence followed by EOF, well-formed or not,
\* ParseProgram terminates, with EOF as the current token and after at most
\* twice as many calls of nextToken as there are tokens, the two EOF
\* included; every iteration of the loops of ParseProgram,
\* parseBlockStatement, parseExpression, parseExpressionList,
\* parseFunctionParameters and parseHashExpression has consumed a token or
\* more when it ends, or leaves the loop; and no iteration starts when the
\* current token is EOF.
C16_ParserTerminates ==
  Parsed =>
    /\ program # Nil
    /\ parser.curToken.Type = EOF
    /\ Len(parser.lexed) <= 2 * (Len(Tokens(src)) + 2)
    /\ OpenAt(parser.trace, Len(parser.trace)) = <<>>
    /\ \A j \in DOMAIN parser.trace :
         /\ parser.trace[j].loop \in ParserLoops
         /\ parser.trace[j].ev = "enter" => parser.trace[j].cur # EOF
         /\ parser.trace[j].ev = "exit" =>
              With(parser.trace[Opening(parser.trace, j)], LAMBDA entered :
                /\ entered.loop = parser.trace[j].loop
                /\ parser.trace[j].left \/ parser.trace[j].taken > entered.taken)

\* the input ends inside the block of a function literal: the loop over the
\* parameters has run, the loop over the block's statements ends its
\* iteration at EOF, and so does the loop over the program's
C16_Witness ==
  /\ Parsed
  /\ src = Source(<<"fn", "(", "a", ",", "a", ")", "{", "return", "a">>)
  /\ parser.curToken.Type = EOF
  /\ \E i, j, k \in DOMAIN parser.trace :
       /\ i < j /\ j < k
       /\ parser.trace[i].ev = "exit" /\ parser.trace[i].loop = "parseFunctionParameters"
       /\ parser.trace[j].ev = "exit" /\ parser.trace[j].loop = "parseBlockStatement"
       /\ parser.trace[j].cur = EOF /\ ~parser.trace[j].left
       /\ parser.trace[k].ev = "exit" /\ parser.trace[k].loop = "ParseProgram"
       /\ parser.trace[k].cur = EOF

====
